---- MODULE Spec2Model ----
(***************************************************************************)
(* Model of the zen-sync backup/sync engine: the copy pass (backup.ts),    *)
(* the metadata ledger (metadata.ts) and the three operations upload,      *)
(* download and smart sync (sync.ts), over an explicit file system.        *)
(*                                                                         *)
(* A path is a sequence of names (strings); path.join is concatenation.    *)
(* A file system is a record [dirs, files]: the set of directories and a   *)
(* function from file paths to contents.                                   *)
(***************************************************************************)
EXTENDS Integers, Sequences, FiniteSets, TLC

VARIABLES
    samePaths,   \* pathsAreSame(zen_roaming_path, zen_local_path): the topology
    categories,  \* config.data.sync.categories
    fs,          \* the file system: local root(s) and the NAS destination
    meta,        \* the ledger file <base>/.zen-sync-metadata.json
    machineId,   \* config.data.state.machineId
    stamps,      \* config.data.state.lastUpload, lastDownload and lastSync
    configWrites, \* writes of the configuration file in flight that nothing awaits
    other,       \* the saveMetadata call of a second process on the same destination
    clock,       \* wall-clock time, in seconds
    ops,         \* the operations run so far
    last         \* the last operation: its kind, route, outcome and starting state

vars ==
    <<samePaths, categories, fs, meta, machineId, stamps, configWrites, other, clock,
      ops, last>>

(***************************************************************************)
(* Bounds of the model.                                                    *)
(***************************************************************************)
MaxClock == 1      \* seconds the wall clock may advance
MaxOps == 2        \* operations in one behaviour

(***************************************************************************)
(* Generic helpers.                                                        *)
(***************************************************************************)
Range(s) == {s[i] : i \in 1..Len(s)}

Min(a, b) == IF a < b THEN a ELSE b

Max(a, b) == IF a < b THEN b ELSE a

\* Array.prototype.slice(start) for a negative start: the last -start elements
Slice(s, start) ==
    LET from == IF start < 0 THEN Max(Len(s) + start, 0) ELSE Min(start, Len(s))
    IN SubSeq(s, from + 1, Len(s))

\* Array.prototype.flatMap over a sequence of sequences
RECURSIVE Flatten(_)
Flatten(ss) == IF ss = <<>> THEN <<>> ELSE Head(ss) \o Flatten(Tail(ss))

IsPrefix(p, q) == Len(p) <= Len(q) /\ SubSeq(q, 1, Len(p)) = p

(***************************************************************************)
(* Glob matching as fast-glob does it with dot: true. A pattern is the     *)
(* sequence of its '/'-separated segments; "**" spans any number of        *)
(* directories and '*' any run of characters inside one segment.           *)
(***************************************************************************)
RECURSIVE WildMatch(_, _)
WildMatch(p, s) ==
    IF Len(p) = 0 THEN Len(s) = 0
    ELSE IF SubSeq(p, 1, 1) = "*"
         THEN \/ WildMatch(SubSeq(p, 2, Len(p)), s)
              \/ Len(s) > 0 /\ WildMatch(p, SubSeq(s, 2, Len(s)))
         ELSE /\ Len(s) > 0
              /\ SubSeq(p, 1, 1) = SubSeq(s, 1, 1)
              /\ WildMatch(SubSeq(p, 2, Len(p)), SubSeq(s, 2, Len(s)))

RECURSIVE GlobMatch(_, _)
GlobMatch(pat, rel) ==
    IF pat = <<>> THEN rel = <<>>
    ELSE IF Head(pat) = "**"
         THEN \/ GlobMatch(Tail(pat), rel)
              \/ rel # <<>> /\ GlobMatch(pat, Tail(rel))
         ELSE /\ rel # <<>>
              /\ WildMatch(Head(pat), Head(rel))
              /\ GlobMatch(Tail(pat), Tail(rel))

MatchesAny(pats, rel) == \E i \in 1..Len(pats) : GlobMatch(pats[i], rel)

(***************************************************************************)
(* constants.ts: the category catalog (names without their emoji) and the  *)
(* exclusions of the configuration.                                        *)
(***************************************************************************)
CategoryNames ==
    << "Profile Configuration", "Profile Groups", "Bookmarks",
       "Passwords & Certificates", "Extensions", "Themes & CSS",
       "Browser Preferences", "Search Settings", "Favicons",
       "Chrome Customizations" >>

SYNC_CATEGORIES ==
    [c \in Range(CategoryNames) |->
        CASE c = "Profile Configuration" ->
                << <<"profiles.ini">>, <<"installs.ini">>, <<"compatibility.ini">> >>
          [] c = "Profile Groups" -> << <<"Profile Groups", "**", "*.sqlite">> >>
          [] c = "Bookmarks" ->
                << <<"**", "places.sqlite">>, <<"**", "bookmarks.html">> >>
          [] c = "Passwords & Certificates" ->
                << <<"**", "key4.db">>, <<"**", "cert9.db">>, <<"**", "logins.json">> >>
          [] c = "Extensions" ->
                << <<"**", "extensions.json">>, <<"**", "extension-*.json">> >>
          [] c = "Themes & CSS" ->
                << <<"**", "zen-*.json">>, <<"**", "zen-*.css">>,
                   <<"**", "userChrome.css">>, <<"**", "userContent.css">> >>
          [] c = "Browser Preferences" -> << <<"**", "prefs.js">>, <<"**", "user.js">> >>
          [] c = "Search Settings" -> << <<"**", "search.json.mozlz4">> >>
          [] c = "Favicons" -> << <<"**", "favicons.sqlite">> >>
          [] c = "Chrome Customizations" -> << <<"chrome", "**", "*">> >>]

\* config.data.sync.exclude: the entries of DEFAULT_CONFIG that can match a
\* file of the model
Exclude ==
    << <<"cache2", "**">>, <<"**", "*.lock">>, <<"parent.lock">>,
       <<"**", "*.tmp">>, <<"compatibility.ini">> >>

\* the additional exclusions uploadToNas passes for the local root
LocalExtraExclude ==
    << <<"cache", "**">>, <<"Cache", "**">>, <<"CacheStorage", "**">>,
       <<"GPUCache", "**">>, <<"Service Worker", "**">>, <<"Code Cache", "**">>,
       <<"DawnCache", "**">> >>

\* an optional value: None for undefined / null, Some(x) for x
None == <<>>

Some(x) == <<x>>

(***************************************************************************)
(* The file system. A file holds one of two contents.                      *)
(***************************************************************************)
Contents == {1, 2}

\* config.data.nas.destination_path, zen_roaming_path and zen_local_path
Base == <<"nas">>

RoamingPath == <<"zen">>

LocalPath == IF samePaths THEN RoamingPath ELSE <<"zenlocal">>

\* the relative file paths of the model, in directory-listing order:
\* prefs.js is in the category Browser Preferences, notes.txt in no category
RelPaths == << <<"notes.txt">>, <<"prefs.js">> >>

EmptyFs == [dirs |-> {}, files |-> <<>>]

existsSync(f, p) == p \in f.dirs \/ p \in DOMAIN f.files

\* mkdir(p, { recursive: true })
mkdir(f, p) == [f EXCEPT !.dirs = @ \cup {SubSeq(p, 1, k) : k \in 1..Len(p)}]

\* path.dirname
dirname(p) == SubSeq(p, 1, Len(p) - 1)

\* cp without force: an existing destination file is kept
cp_NoForce(f, s, d) ==
    IF d \in DOMAIN f.files THEN f ELSE [f EXCEPT !.files = (d :> f.files[s]) @@ @]

\* cp(s, d, { force: true }): d is overwritten unconditionally
cp(f, s, d) == [f EXCEPT !.files = (d :> f.files[s]) @@ @]

\* rm that leaves the file in place
rm_Keeps(f, p) == f

\* rm(p, { force: true })
rm(f, p) == [f EXCEPT !.files = [q \in (DOMAIN @) \ {p} |-> @[q]]]

\* property names every object literal inherits from Object.prototype
ObjectPrototypeKeys ==
    {"constructor", "toString", "valueOf", "hasOwnProperty", "__proto__"}

\* an element of a pattern list that is not a string
NotAPattern == <<>>

\* what flatMap appends for (SYNC_CATEGORIES as any)[category] || []: the
\* patterns of a catalog entry, nothing for a name the object lacks, and the
\* inherited function or object itself for a name of Object.prototype
CategoryLookup(category) ==
    IF category \in DOMAIN SYNC_CATEGORIES THEN SYNC_CATEGORIES[category]
    ELSE IF category \in ObjectPrototypeKeys THEN <<NotAPattern>>
    ELSE <<>>

\* the include patterns backupPath builds from the selected categories
IncludePatterns(selectedCategories) ==
    IF selectedCategories # None
    THEN LET sel == selectedCategories[1]
         IN Flatten([i \in 1..Len(sel) |-> CategoryLookup(sel[i])])
    ELSE << <<"**", "*">> >>

\* fast-glob accepts a pattern list only if every element is a string
ValidPatterns(pats) == \A i \in 1..Len(pats) : pats[i] # NotAPattern

\* the values config.data.sync.categories takes in the model
CategoryChoices == {Some(CategoryNames)}

\* MatchesAny, tabulated once for the pattern lists the operations pass
PatternLists ==
    {IncludePatterns(None), Exclude, Exclude \o LocalExtraExclude, <<>>}
        \cup {IncludePatterns(c) : c \in CategoryChoices}
        \cup {IncludePatterns(Some(CategoryNames))}

MatchTable ==
    [pats \in PatternLists |-> [rel \in Range(RelPaths) |-> MatchesAny(pats, rel)]]

Matches(pats, rel) ==
    IF pats \in DOMAIN MatchTable THEN MatchTable[pats][rel] ELSE MatchesAny(pats, rel)

\* a glob that lists a file once for every include pattern it matches
fg_PerPattern(f, include, cwd, ignore) ==
    Flatten([i \in 1..Len(include) |->
                SelectSeq(RelPaths,
                          LAMBDA rel : /\ (cwd \o rel) \in DOMAIN f.files
                                       /\ GlobMatch(include[i], rel)
                                       /\ ~Matches(ignore, rel))])

\* fast-glob with onlyFiles and dot: the files under cwd that match a pattern
\* of include and none of ignore, relative to cwd, each once
fg(f, include, cwd, ignore) ==
    SelectSeq(RelPaths,
              LAMBDA rel : /\ (cwd \o rel) \in DOMAIN f.files
                           /\ Matches(include, rel)
                           /\ ~Matches(ignore, rel))

\* the copy loop of backupPath over the first n files of the manifest
RECURSIVE CopyFiles(_, _, _, _, _)
CopyFiles(f, src, dest, files, n) ==
    IF n = 0 THEN f
    ELSE LET g == CopyFiles(f, src, dest, files, n - 1)
             d == dest \o files[n]
         IN cp(mkdir(g, dirname(d)), src \o files[n], d)

\* the removal loop of backupPath
RECURSIVE RemoveFiles(_, _, _)
RemoveFiles(f, dest, toDel) ==
    IF toDel = <<>> THEN f
    ELSE RemoveFiles(rm(f, dest \o Head(toDel)), dest, Tail(toDel))

(***************************************************************************)
(* backup.ts backupPath: one copy pass. failAt = k > 0 makes the copy of   *)
(* the k-th manifest file throw (an I/O failure); the result tells the     *)
(* new file system, the count returned and whether the pass threw.         *)
(***************************************************************************)
\* the cleanup phase: every file under dest that is not in the manifest goes
CleanupPhase(f, dest, files, dryRun, cleanup) ==
    [fs |-> IF cleanup /\ ~dryRun
            THEN RemoveFiles(f, dest,
                             SelectSeq(fg(f, << <<"**", "*">> >>, dest, <<>>),
                                       LAMBDA x : x \notin Range(files)))
            ELSE f,
     count |-> Len(files), threw |-> FALSE, files |-> files]

\* a copy loop whose failure still lets the cleanup of the destination run
CopyPhase_CleanupOnThrow(f, src, dest, files, dryRun, cleanup, failAt) ==
    IF ~dryRun /\ failAt \in 1..Len(files)
    THEN [fs |-> CleanupPhase(CopyFiles(f, src, dest, files, failAt - 1), dest, files,
                              dryRun, cleanup).fs,
          count |-> failAt - 1, threw |-> TRUE, files |-> files]
    ELSE CleanupPhase(IF dryRun THEN f ELSE CopyFiles(f, src, dest, files, Len(files)),
                      dest, files, dryRun, cleanup)

\* the copy phase over the manifest files; a throw skips the cleanup
CopyPhase(f, src, dest, files, dryRun, cleanup, failAt) ==
    IF ~dryRun /\ failAt \in 1..Len(files)
    THEN [fs |-> CopyFiles(f, src, dest, files, failAt - 1), count |-> failAt - 1,
          threw |-> TRUE, files |-> files]
    ELSE CleanupPhase(IF dryRun THEN f ELSE CopyFiles(f, src, dest, files, Len(files)),
                      dest, files, dryRun, cleanup)

\* a scan that throws when the source directory does not exist
ScanPhase_ThrowOnMissing(f, src, dest, exclude, dryRun, cleanup, selectedCategories, failAt) ==
    IF ~existsSync(f, src)
    THEN [fs |-> f, count |-> 0, threw |-> TRUE, files |-> <<>>]
    ELSE CopyPhase(f, src, dest, fg(f, IncludePatterns(selectedCategories), src, exclude),
                   dryRun, cleanup, failAt)

\* the fg call of backupPath: a TypeError for a pattern list with an element
\* that is not a string, else the manifest, which the copy loop takes
GlobPhase(f, src, dest, include, exclude, dryRun, cleanup, failAt) ==
    IF ~ValidPatterns(include)
    THEN [fs |-> f, count |-> 0, threw |-> TRUE, files |-> <<>>]
    ELSE CopyPhase(f, src, dest, fg(f, include, src, exclude), dryRun, cleanup, failAt)

\* a scan that still runs the cleanup of the destination for a missing source
ScanPhase_CleanupOnMissing(f, src, dest, exclude, dryRun, cleanup, selectedCategories, failAt) ==
    IF ~existsSync(f, src)
    THEN CleanupPhase(f, dest, <<>>, dryRun, cleanup)
    ELSE GlobPhase(f, src, dest, IncludePatterns(selectedCategories), exclude, dryRun,
                   cleanup, failAt)

\* after the mkdir of dest: a missing source returns 0, else the manifest is built
ScanPhase(f, src, dest, exclude, dryRun, cleanup, selectedCategories, failAt) ==
    IF ~existsSync(f, src)
    THEN [fs |-> f, count |-> 0, threw |-> FALSE, files |-> <<>>]
    ELSE GlobPhase(f, src, dest, IncludePatterns(selectedCategories), exclude, dryRun,
                   cleanup, failAt)

\* backupPath creating the destination directory also on a dry run
backupPath_MkdirAlways(f, src, dest, exclude, dryRun, cleanup, selectedCategories, failAt) ==
    ScanPhase(mkdir(f, dest), src, dest, exclude, dryRun, cleanup, selectedCategories,
              failAt)

backupPath(f, src, dest, exclude, dryRun, cleanup, selectedCategories, failAt) ==
    ScanPhase(IF dryRun THEN f ELSE mkdir(f, dest), src, dest, exclude, dryRun,
              cleanup, selectedCategories, failAt)

(***************************************************************************)
(* String helpers: String.prototype.split, join and includes.              *)
(***************************************************************************)
RECURSIVE SplitFrom(_, _, _)
SplitFrom(s, sep, acc) ==
    IF Len(s) = 0 THEN <<acc>>
    ELSE IF SubSeq(s, 1, 1) = sep
         THEN <<acc>> \o SplitFrom(SubSeq(s, 2, Len(s)), sep, "")
         ELSE SplitFrom(SubSeq(s, 2, Len(s)), sep, acc \o SubSeq(s, 1, 1))

Split(s, sep) == SplitFrom(s, sep, "")

RECURSIVE Join(_, _)
Join(parts, sep) ==
    IF parts = <<>> THEN ""
    ELSE IF Len(parts) = 1 THEN parts[1]
         ELSE parts[1] \o sep \o Join(Tail(parts), sep)

Includes(s, part) ==
    \E i \in 1..(Len(s) - Len(part) + 1) : SubSeq(s, i, i + Len(part) - 1) = part

(***************************************************************************)
(* utils.ts generateBackupId at wall-clock second now, on the machine of   *)
(* the model (hostname "Host-PC").                                         *)
(***************************************************************************)
Hostname == "Host-PC"

\* os.hostname() || "Unknown"
getMachineName(hostname) == IF hostname = "" THEN "Unknown" ELSE hostname

UpperCase == "ABCDEFGHIJKLMNOPQRSTUVWXYZ"

LowerCase == "abcdefghijklmnopqrstuvwxyz"

Digits == "0123456789"

\* String.prototype.toLowerCase on one character
LowerChar(c) ==
    IF \E i \in 1..Len(UpperCase) : SubSeq(UpperCase, i, i) = c
    THEN LET i == CHOOSE k \in 1..Len(UpperCase) : SubSeq(UpperCase, k, k) = c
         IN SubSeq(LowerCase, i, i)
    ELSE c

RECURSIVE toLowerCase(_)
toLowerCase(s) ==
    IF Len(s) = 0 THEN "" ELSE LowerChar(SubSeq(s, 1, 1)) \o toLowerCase(SubSeq(s, 2, Len(s)))

\* the character is in [a-z0-9]
IsLowerAlnum(c) == Includes(LowerCase, c) \/ Includes(Digits, c)

\* replace(/[^a-z0-9]/g, "")
RECURSIVE StripNonAlnum(_)
StripNonAlnum(s) ==
    IF Len(s) = 0 THEN ""
    ELSE (IF IsLowerAlnum(SubSeq(s, 1, 1)) THEN SubSeq(s, 1, 1) ELSE "")
         \o StripNonAlnum(SubSeq(s, 2, Len(s)))

\* getMachineName().toLowerCase().replace(/[^a-z0-9]/g, "").slice(0, 8)
MachineNamePart(hostname) ==
    SubSeq(StripNonAlnum(toLowerCase(getMachineName(hostname))), 1,
           Min(8, Len(StripNonAlnum(toLowerCase(getMachineName(hostname))))))

MachineName == MachineNamePart(Hostname)

\* seconds -59..59 around 2024-01-01 12:00:00
TimestampStr(now) ==
    IF now < 0 THEN "20240101-1159" \o ToString(60 + now)
    ELSE "20240101-1200" \o (IF now < 10 THEN "0" ELSE "") \o ToString(now)

\* a backup id whose machine part is not cut to 8 characters
generateBackupIdOn_FullName(hostname, now) ==
    TimestampStr(now) \o "-" \o StripNonAlnum(toLowerCase(getMachineName(hostname)))

\* generateBackupId on a machine of the given hostname
generateBackupIdOn(hostname, now) == TimestampStr(now) \o "-" \o MachineNamePart(hostname)

generateBackupId(now) == TimestampStr(now) \o "-" \o MachineName

(***************************************************************************)
(* metadata.ts: the ledger. The file is absent, unparsable ("corrupt") or  *)
(* holds a JSON array of records ("ok").                                   *)
(***************************************************************************)
MAX_ENTRIES == 50

AbsentMeta == [state |-> "absent", records |-> <<>>]

\* utils.ts generateMachineId: crypto.randomUUID() returns a value that no
\* earlier call returned; the ids are numbered in the order they are made
generateMachineId(id) == IF id = None THEN 1 ELSE id[1] + 1

\* an ensureMachineId that makes a new id on every call
ensureMachineId_Regenerates(id) == Some(generateMachineId(id))

\* config.ts ensureMachineId: an id is made only when the configuration has none
ensureMachineId(id) == IF id = None THEN Some(generateMachineId(id)) ELSE id

createSyncMetadata(syncType, fileCount, path, now) ==
    [backupId |-> generateBackupId(now),
     machineId |-> ensureMachineId(machineId)[1],
     timestamp |-> now,
     syncType |-> syncType,
     fileCount |-> fileCount,
     backupPath |-> path]

\* saveMetadata without the slice(-50)
saveMetadata_NoCap(m, metadata) ==
    [state |-> "ok",
     records |-> Append(IF m.state = "ok" THEN m.records ELSE <<>>, metadata)]

\* saveMetadata keeping the first 50 entries, slice(0, 50)
saveMetadata_KeepOldest(m, metadata) ==
    LET all == Append(IF m.state = "ok" THEN m.records ELSE <<>>, metadata)
    IN [state |-> "ok", records |-> SubSeq(all, 1, Min(MAX_ENTRIES, Len(all)))]

\* saveMetadata with the read outside the try: an unreadable ledger is left as it is
saveMetadata_NoRecover(m, metadata) ==
    IF m.state # "ok" THEN m
    ELSE [state |-> "ok", records |-> Slice(Append(m.records, metadata), -MAX_ENTRIES)]

saveMetadata(m, metadata) ==
    LET existingMetadata == IF m.state = "ok" THEN m.records ELSE <<>>
        recentMetadata == Slice(Append(existingMetadata, metadata), -MAX_ENTRIES)
    IN [state |-> "ok", records |-> recentMetadata]

\* saveMetadata up to its first await of the write: the array read from the
\* file, empty when the file is missing or does not parse
ReadLedger(m) == IF m.state = "ok" THEN m.records ELSE <<>>

\* a write that reads the file again and appends to what it holds then
WriteLedger_Reread(m, existingMetadata, metadata) ==
    [state |-> "ok",
     records |-> Slice(Append(IF m.state = "ok" THEN m.records ELSE <<>>, metadata),
                       -MAX_ENTRIES)]

\* the rest of saveMetadata: push, slice(-50) and writeFile over the file m,
\* whatever the file holds by then
WriteLedger(m, existingMetadata, metadata) ==
    [state |-> "ok", records |-> Slice(Append(existingMetadata, metadata), -MAX_ENTRIES)]

\* no second process is appending
Idle == [pc |-> "idle", existingMetadata |-> <<>>]

\* a test that takes a sync record for an upload record as well
IsUpload_OrSync(r) == r.syncType \in {"upload", "sync"}

IsUpload(r) == r.syncType = "upload"

\* getLatestBackupPath taking the newest record of any type
getLatestBackupPath_AnyType(m) ==
    IF m.state # "ok" \/ m.records = <<>> THEN None
    ELSE Some(Base \o <<m.records[Len(m.records)].backupPath>>)

\* getLatestBackupPath taking the oldest upload record
getLatestBackupPath_Oldest(m) ==
    IF m.state # "ok" THEN None
    ELSE LET uploads == SelectSeq(m.records, IsUpload)
         IN IF uploads = <<>> THEN None
            ELSE IF uploads[1].backupPath = "" THEN None
            ELSE Some(Base \o <<uploads[1].backupPath>>)

\* getLatestBackupPath: the path of the latest upload, or None
getLatestBackupPath(m) ==
    IF m.state # "ok" THEN None
    ELSE LET uploads == SelectSeq(m.records, IsUpload)
         IN IF uploads = <<>> THEN None
            ELSE IF uploads[Len(uploads)].backupPath = "" THEN None
            ELSE Some(Base \o <<uploads[Len(uploads)].backupPath>>)

(***************************************************************************)
(* sync.ts: an operation is a chain of copy passes followed by the ledger  *)
(* append. A fault [pass, at] makes the copy of the at-th file of the      *)
(* pass-th executed pass throw; pass 0 is no fault.                        *)
(***************************************************************************)
NoFault == [pass |-> 0, at |-> 0]

Start(f) == [fs |-> f, total |-> 0, threw |-> FALSE, passes |-> 0]

\* a totalFiles that keeps the count of the latest pass only
Accumulate_LastOnly(acc, r) ==
    [fs |-> r.fs, total |-> r.count, threw |-> r.threw, passes |-> acc.passes + 1]

\* totalFiles += r, where r is what a call of backupPath returned or threw
Accumulate(acc, r) ==
    [fs |-> r.fs, total |-> acc.total + r.count, threw |-> r.threw,
     passes |-> acc.passes + 1]

\* a pass that is always run with cleanup enabled
Pass_AlwaysCleanup(acc, src, dest, exclude, cleanup, selectedCategories, fault) ==
    IF acc.threw THEN acc
    ELSE Accumulate(acc, backupPath(acc.fs, src, dest, exclude, FALSE, TRUE,
                                    selectedCategories,
                                    IF fault.pass = acc.passes + 1 THEN fault.at ELSE 0))

\* totalFiles += await backupPath(...): skipped once an earlier pass threw
Pass(acc, src, dest, exclude, cleanup, selectedCategories, fault) ==
    IF acc.threw THEN acc
    ELSE Accumulate(acc, backupPath(acc.fs, src, dest, exclude, FALSE, cleanup,
                                    selectedCategories,
                                    IF fault.pass = acc.passes + 1 THEN fault.at ELSE 0))

\* if (existsSync(p)) totalFiles += await backupPath(...)
PassIfExists(acc, p, src, dest, exclude, cleanup, selectedCategories, fault) ==
    IF existsSync(acc.fs, p)
    THEN Pass(acc, src, dest, exclude, cleanup, selectedCategories, fault)
    ELSE acc

\* a tail that records the operation even when a copy pass threw
Finish_AppendOnThrow(acc, m, syncType, path, now, route) ==
    [fs |-> acc.fs,
     meta |-> saveMetadata(m, createSyncMetadata(syncType, acc.total, path, now)),
     outcome |-> IF acc.threw THEN "threw" ELSE "ok", appends |-> 1, route |-> route,
     total |-> acc.total, machineId |-> ensureMachineId(machineId)]

\* a tail whose ledger append was made before the copy passes ran
Finish_LedgerFirst(acc, m, syncType, path, now, route) ==
    [fs |-> acc.fs,
     meta |-> saveMetadata(m, createSyncMetadata(syncType, 0, path, now)),
     outcome |-> IF acc.threw THEN "threw" ELSE "ok", appends |-> 1, route |-> route,
     total |-> acc.total, machineId |-> ensureMachineId(machineId)]

\* a tail that records nothing for an operation that copied no file
Finish_SkipEmpty(acc, m, syncType, path, now, route) ==
    IF acc.threw \/ acc.total = 0
    THEN [fs |-> acc.fs, meta |-> m, outcome |-> IF acc.threw THEN "threw" ELSE "ok",
          appends |-> 0, route |-> route, total |-> acc.total, machineId |-> machineId]
    ELSE [fs |-> acc.fs,
          meta |-> saveMetadata(m, createSyncMetadata(syncType, acc.total, path, now)),
          outcome |-> "ok", appends |-> 1, route |-> route, total |-> acc.total,
          machineId |-> ensureMachineId(machineId)]

\* the tail of every operation: createSyncMetadata and saveMetadata at second now
Finish(acc, m, syncType, path, now, route) ==
    IF acc.threw
    THEN [fs |-> acc.fs, meta |-> m, outcome |-> "threw", appends |-> 0,
          route |-> route, total |-> acc.total, machineId |-> machineId]
    ELSE [fs |-> acc.fs,
          meta |-> saveMetadata(m, createSyncMetadata(syncType, acc.total, path, now)),
          outcome |-> "ok", appends |-> 1, route |-> route, total |-> acc.total,
          machineId |-> ensureMachineId(machineId)]

\* an early return that records the attempt in the ledger
Return_Records(f, m, outcome, route) ==
    [fs |-> f, meta |-> saveMetadata(m, createSyncMetadata("download", 0, "", 0)),
     outcome |-> outcome, appends |-> 1, route |-> route, total |-> 0,
     machineId |-> ensureMachineId(machineId)]

\* an operation that returns early without copying or recording anything
Return(f, m, outcome, route) ==
    [fs |-> f, meta |-> m, outcome |-> outcome, appends |-> 0, route |-> route,
     total |-> 0, machineId |-> machineId]

\* config.data.sync.categories || Object.keys(SYNC_CATEGORIES)
SelectedCategories == IF categories # None THEN categories[1] ELSE CategoryNames

\* uploadToNas started at second now; dt seconds pass before its metadata is made
uploadToNas(f, m, now, dt, fault, route) ==
    LET backupId == generateBackupId(now)
        backupFolderPath == Base \o <<backupId>>
        unified == Pass(Start(f), RoamingPath, backupFolderPath \o <<"profile">>,
                        Exclude, FALSE, Some(SelectedCategories), fault)
        roamingDone == Pass(Start(f), RoamingPath, backupFolderPath \o <<"roaming">>,
                            Exclude, FALSE, Some(SelectedCategories), fault)
        localDone == PassIfExists(roamingDone, LocalPath, LocalPath,
                                  backupFolderPath \o <<"local">>,
                                  Exclude \o LocalExtraExclude, FALSE,
                                  Some(SelectedCategories), fault)
    IN Finish(IF samePaths THEN unified ELSE localDone, m, "upload", backupId,
              now + dt, route)

\* the names that can occur under the destination, in listing order: for
\* each second the backup of this machine, that backup renamed by the user
\* and a backup of another machine
NasNames ==
    Flatten([i \in 1..(MaxClock + 1) |->
               <<generateBackupId(i - 1), generateBackupId(i - 1) \o "-old",
                 TimestampStr(i - 1) \o "-otherpc">>])
        \o <<"local", "roaming">>

readdirSync(f, dir) == SelectSeq(NasNames, LAMBDA n : existsSync(f, dir \o <<n>>))

\* choices built from the last 10 records of any type
Choices_AnyType(m) ==
    IF m.state # "ok" THEN <<>> ELSE Slice(m.records, -10)

\* selectBackupForDownload: the user picks the pick-th of the last 10 uploads
\* (pick 0: the prompt is cancelled); the value of a choice is entry.backupId
Choices(m) ==
    IF m.state # "ok" THEN <<>> ELSE Slice(SelectSeq(m.records, IsUpload), -10)

selectBackupForDownload(m, pick) ==
    IF pick \in 1..Len(Choices(m)) THEN Some(Choices(m)[pick].backupId) ELSE None

\* ui.ts listAvailableBackups: the upload records, newest first, each with the
\* status of path.join(base, entry.backupPath); nothing is listed when the
\* ledger file is missing or does not parse
listAvailableBackups(f, m) ==
    IF m.state # "ok" THEN <<>>
    ELSE LET uploads == SelectSeq(m.records, IsUpload)
         IN [i \in 1..Len(uploads) |->
               [backupId |-> uploads[Len(uploads) + 1 - i].backupId,
                exists |-> existsSync(f, Base \o <<uploads[Len(uploads) + 1 - i].backupPath>>)]]

\* the resolution without the fallback search: path.join(base, id) only
ResolveBackupPath_LiteralOnly(f, selectedBackupId) == Base \o <<selectedBackupId>>

\* downloadFromNas: path.join(base, id), or the first directory whose name
\* includes the date-time part of the id when that path does not exist
ResolveBackupPath(f, selectedBackupId) ==
    LET literal == Base \o <<selectedBackupId>>
        parts == Split(selectedBackupId, "-")
        backupIdPart == Join(SubSeq(parts, 1, Min(2, Len(parts))), "-")
        possibleMatches ==
            SelectSeq(readdirSync(f, Base),
                      LAMBDA item : /\ Includes(item, backupIdPart)
                                    /\ (Base \o <<item>>) \in f.dirs)
    IN IF existsSync(f, literal) THEN literal
       ELSE IF possibleMatches # <<>> THEN Base \o <<possibleMatches[1]>>
       ELSE literal

downloadFromNas(f, m, pick, now, fault) ==
    LET selected == selectBackupForDownload(m, pick)
        selectedBackupId == selected[1]
        selectedBackupPath == ResolveBackupPath(f, selectedBackupId)
        roamingSource == selectedBackupPath \o <<"roaming">>
        localSource == selectedBackupPath \o <<"local">>
        profileSource == selectedBackupPath \o <<"profile">>
        unified == Pass(Start(f),
                        IF existsSync(f, profileSource) THEN profileSource
                        ELSE roamingSource,
                        RoamingPath, <<>>, TRUE, None, fault)
        roamingDone == Pass(Start(f), roamingSource, RoamingPath, <<>>, TRUE, None, fault)
        localDone == PassIfExists(roamingDone, localSource, localSource, LocalPath,
                                  <<>>, TRUE, None, fault)
    IN IF selected = None THEN Return(f, m, "no-backup-selected", "download")
       ELSE IF samePaths
       THEN IF existsSync(f, profileSource) \/ existsSync(f, roamingSource)
            THEN Finish(unified, m, "download", selectedBackupId, now, "download")
            ELSE Return(f, m, "backup-data-not-found", "download")
       ELSE IF ~existsSync(f, roamingSource)
            THEN Return(f, m, "backup-data-not-found", "download")
            ELSE Finish(localDone, m, "download", selectedBackupId, now, "download")

\* smartSync: hasNasData decides between the merge and the upload
HasNasData(f, m) ==
    IF samePaths
    THEN LET latestBackup == getLatestBackupPath(m)
         IN /\ latestBackup # None
            /\ \/ existsSync(f, latestBackup[1] \o <<"profile">>)
               \/ existsSync(f, latestBackup[1] \o <<"roaming">>)
    ELSE existsSync(f, Base \o <<"roaming">>)

\* a smart sync that records a backup id as the path of its record
smartSync_RecordsBackupDir(f, m, now, dt, fault) ==
    LET roamingNas == Base \o <<"roaming">>
        localNas == Base \o <<"local">>
        latestBackup == getLatestBackupPath(m)[1]
        profileNas == latestBackup \o <<"profile">>
        sourceNas == IF existsSync(f, profileNas) THEN profileNas
                     ELSE latestBackup \o <<"roaming">>
        up1 == Pass(Start(f), RoamingPath, sourceNas, Exclude, FALSE,
                    Some(SelectedCategories), fault)
        unified == Pass(up1, sourceNas, RoamingPath, <<>>, FALSE, None, fault)
        r1 == Pass(Start(f), RoamingPath, roamingNas, Exclude, FALSE,
                   Some(SelectedCategories), fault)
        r2 == Pass(r1, roamingNas, RoamingPath, <<>>, FALSE, None, fault)
        l1 == PassIfExists(r2, localNas, LocalPath, localNas, Exclude, FALSE,
                           Some(SelectedCategories), fault)
        split == PassIfExists(l1, localNas, localNas, LocalPath, <<>>, FALSE, None, fault)
    IN IF ~HasNasData(f, m) THEN uploadToNas(f, m, now, dt, fault, "degraded")
       ELSE Finish(IF samePaths THEN unified ELSE split, m, "sync", generateBackupId(now),
                   now + dt, "merge")

\* a smart sync whose passes towards the local roots are filtered as well
smartSync_FilteredBack(f, m, now, dt, fault) ==
    LET roamingNas == Base \o <<"roaming">>
        localNas == Base \o <<"local">>
        latestBackup == getLatestBackupPath(m)[1]
        profileNas == latestBackup \o <<"profile">>
        sourceNas == IF existsSync(f, profileNas) THEN profileNas
                     ELSE latestBackup \o <<"roaming">>
        up1 == Pass(Start(f), RoamingPath, sourceNas, Exclude, FALSE,
                    Some(SelectedCategories), fault)
        unified == Pass(up1, sourceNas, RoamingPath, Exclude, FALSE,
                   Some(SelectedCategories), fault)
        r1 == Pass(Start(f), RoamingPath, roamingNas, Exclude, FALSE,
                   Some(SelectedCategories), fault)
        r2 == Pass(r1, roamingNas, RoamingPath, Exclude, FALSE,
                   Some(SelectedCategories), fault)
        l1 == PassIfExists(r2, localNas, LocalPath, localNas, Exclude, FALSE,
                           Some(SelectedCategories), fault)
        split == PassIfExists(l1, localNas, localNas, LocalPath, Exclude, FALSE,
                   Some(SelectedCategories), fault)
    IN IF ~HasNasData(f, m) THEN uploadToNas(f, m, now, dt, fault, "degraded")
       ELSE Finish(IF samePaths THEN unified ELSE split, m, "sync", "smart-sync",
                   now + dt, "merge")

smartSync(f, m, now, dt, fault) ==
    LET roamingNas == Base \o <<"roaming">>
        localNas == Base \o <<"local">>
        latestBackup == getLatestBackupPath(m)[1]
        profileNas == latestBackup \o <<"profile">>
        sourceNas == IF existsSync(f, profileNas) THEN profileNas
                     ELSE latestBackup \o <<"roaming">>
        up1 == Pass(Start(f), RoamingPath, sourceNas, Exclude, FALSE,
                    Some(SelectedCategories), fault)
        unified == Pass(up1, sourceNas, RoamingPath, <<>>, FALSE, None, fault)
        r1 == Pass(Start(f), RoamingPath, roamingNas, Exclude, FALSE,
                   Some(SelectedCategories), fault)
        r2 == Pass(r1, roamingNas, RoamingPath, <<>>, FALSE, None, fault)
        \* if (existsSync(localNas)) { both local passes }: the first of them
        \* leaves localNas in place, so the test before the second agrees
        l1 == PassIfExists(r2, localNas, LocalPath, localNas, Exclude, FALSE,
                           Some(SelectedCategories), fault)
        split == PassIfExists(l1, localNas, localNas, LocalPath, <<>>, FALSE, None, fault)
    IN IF ~HasNasData(f, m) THEN uploadToNas(f, m, now, dt, fault, "degraded")
       ELSE Finish(IF samePaths THEN unified ELSE split, m, "sync", "smart-sync",
                   now + dt, "merge")

(***************************************************************************)
(* The state machine. An operation is one action; `last` records it        *)
(* together with the file system and ledger it started from.               *)
(***************************************************************************)
\* the copy passes an operation can run: one per root, two per merged root
MaxPasses(op) == (IF samePaths THEN 1 ELSE 2) * (IF op = "sync" THEN 2 ELSE 1)

Faults(op) ==
    {NoFault} \cup {[pass |-> p, at |-> k] : p \in 1..MaxPasses(op), k \in 1..Len(RelPaths)}

\* state: {} of DEFAULT_CONFIG: no operation has been stamped
NoStamps == [upload |-> None, download |-> None, sync |-> None]

NoOp ==
    [op |-> "none", route |-> "none", outcome |-> "none", appends |-> 0,
     total |-> 0, preFs |-> EmptyFs, preMeta |-> AbsentMeta, stamped |-> FALSE,
     preId |-> None, preStamps |-> NoStamps]

\* index.ts: the statement after `await op(config)`, which sets
\* config.data.state.lastUpload, lastDownload or lastSync to the time of the
\* return and saves the configuration, runs unless the operation rejected
Stamped(r) == r.outcome # "threw"

Done(op, r) ==
    /\ fs' = r.fs
    /\ meta' = r.meta
    /\ machineId' = r.machineId
    /\ stamps' = IF Stamped(r) THEN [stamps EXCEPT ![op] = Some(clock')] ELSE stamps
    /\ configWrites' = configWrites
    /\ other' = other
    /\ ops' = ops + 1
    /\ last' = [op |-> op, route |-> r.route, outcome |-> r.outcome,
                appends |-> r.appends, total |-> r.total, preFs |-> fs,
                preMeta |-> meta, stamped |-> Stamped(r), preId |-> machineId,
                preStamps |-> stamps]

\* another operation fits the bound of the model
Room == ops < MaxOps

Elapsed == 0..Min(1, MaxClock - clock)

\* index.ts "Upload to NAS"
Upload ==
    /\ Room
    /\ \E dt \in Elapsed, fault \in Faults("upload") :
          /\ clock' = clock + dt
          /\ Done("upload", uploadToNas(fs, meta, clock, dt, fault, "upload"))
    /\ UNCHANGED <<samePaths, categories>>

\* index.ts "Download from NAS"
Download ==
    /\ Room
    /\ clock' = clock
    /\ \E pick \in 0..Len(Choices(meta)), fault \in Faults("download") :
          Done("download", downloadFromNas(fs, meta, pick, clock, fault))
    /\ UNCHANGED <<samePaths, categories>>

\* index.ts "Sync (Smart Merge)"
SmartSync ==
    /\ Room
    /\ \E dt \in Elapsed, fault \in Faults("sync") :
          /\ clock' = clock + dt
          /\ Done("sync", smartSync(fs, meta, clock, dt, fault))
    /\ UNCHANGED <<samePaths, categories>>

\* the wall clock advances between two operations; second 0 is the second of
\* the first one
Tick ==
    /\ Room
    /\ ops > 0
    /\ clock < MaxClock
    /\ clock' = clock + 1
    /\ last' = NoOp
    /\ UNCHANGED <<samePaths, categories, fs, meta, machineId, stamps, configWrites, other,
                   ops>>

\* the browser writes a file of a local profile root: in the roaming root
\* prefs.js with either content or notes.txt, in a separate local root prefs.js
LocalRoots == {RoamingPath, LocalPath}

BrowserWrite ==
    /\ Room
    /\ \E root \in LocalRoots, i \in 1..Len(RelPaths), c \in Contents :
          /\ c = 1 \/ (root = RoamingPath /\ RelPaths[i] = <<"prefs.js">>)
          /\ root = RoamingPath \/ RelPaths[i] = <<"prefs.js">>
          /\ fs' = [mkdir(fs, root) EXCEPT
                       !.files = ((root \o RelPaths[i]) :> c) @@ @]
    /\ last' = NoOp
    /\ UNCHANGED <<samePaths, categories, meta, machineId, stamps, configWrites, other,
                   clock, ops>>

\* a destination that already holds roaming/ and local/, the merge targets of
\* smart sync in split topology, and the backup another machine made at
\* second 1 of its clock, none of them with a ledger entry
OtherBackup == Base \o <<TimestampStr(1) \o "-otherpc">>

LegacyNas ==
    [dirs |-> {Base, Base \o <<"roaming">>, Base \o <<"local">>, OtherBackup,
               OtherBackup \o <<"roaming">>},
     files |-> (Base \o <<"roaming", "prefs.js">>) :> 1 @@
               (Base \o <<"roaming", "notes.txt">>) :> 2 @@
               (Base \o <<"local", "prefs.js">>) :> 2 @@
               (OtherBackup \o <<"roaming", "prefs.js">>) :> 2]

CorruptMeta == [state |-> "corrupt", records |-> <<>>]

\* the destination before the first operation: a fresh one without a ledger
\* file, or one that earlier runs and other machines left behind, whose
\* ledger file no longer parses
InitialDestinations == {<<EmptyFs, AbsentMeta>>, <<LegacyNas, CorruptMeta>>}

Init ==
    /\ samePaths \in BOOLEAN
    /\ categories \in CategoryChoices
    /\ machineId = None
    /\ stamps = NoStamps
    /\ configWrites = 0
    /\ other = Idle
    /\ \E d \in InitialDestinations : fs = d[1] /\ meta = d[2]
    /\ clock = 0
    /\ ops = 0
    /\ last = NoOp

Next == Upload \/ Download \/ SmartSync \/ Tick \/ BrowserWrite

Spec == Init /\ [][Next]_vars

\* the properties of restoring and merging are stated over a specification
\* of their own, which has the initial states and the steps of Spec
SpecRestore == Init /\ [][Next]_vars

(***************************************************************************)
(* A second specification for the ledger at its capacity: the operations   *)
(* start from a ledger that an upload and then smart syncs, one per second, *)
(* have filled (the backup directory is gone from the destination).        *)
(***************************************************************************)
\* the machineId of a configuration that earlier sessions have used
InstalledId == Some(0)

Prefilled(n) ==
    [state |-> "ok",
     records |-> [i \in 1..n |->
                    IF i = 1
                    THEN createSyncMetadata("upload", 0, generateBackupId(i - n - 1),
                                            i - n - 1)
                    ELSE createSyncMetadata("sync", 0, "smart-sync", i - n - 1)]]

PrefillLens == (MAX_ENTRIES - 1)..MAX_ENTRIES

InitLedger ==
    /\ samePaths \in BOOLEAN
    /\ categories \in CategoryChoices
    /\ fs = EmptyFs
    /\ machineId = InstalledId
    /\ stamps = NoStamps
    /\ configWrites = 0
    /\ other = Idle
    /\ meta \in {Prefilled(n) : n \in PrefillLens}
    /\ clock = 0
    /\ ops = 0
    /\ last = NoOp

SpecLedger == InitLedger /\ [][Next]_vars

(***************************************************************************)
(* A third specification for the category selection: config.data.sync     *)
(* .categories is absent from the configuration file, the empty list that  *)
(* the multiselect prompt returns when nothing is ticked, every category,  *)
(* or a list edited in the file to hold a name the catalog lacks.          *)
(***************************************************************************)
CategorySelections ==
    {None, Some(<<>>), Some(CategoryNames),
     Some(<<"Browser Preferences", "Reading List">>),
     Some(<<"Browser Preferences", "constructor">>)}

InitCategories ==
    /\ samePaths \in BOOLEAN
    /\ categories \in CategorySelections
    /\ fs = EmptyFs
    /\ machineId = None
    /\ stamps = NoStamps
    /\ configWrites = 0
    /\ other = Idle
    /\ meta = AbsentMeta
    /\ clock = 0
    /\ ops = 0
    /\ last = NoOp

SpecCategories == InitCategories /\ [][Next]_vars

(***************************************************************************)
(* A fourth specification for a ledger and a destination that diverge: the *)
(* ledger holds the record of an upload made a second before, whose        *)
(* directory the user has deleted; the destination is empty or holds       *)
(* directories that have no ledger entry.                                  *)
(***************************************************************************)
DeletedBackupLedger ==
    [state |-> "ok",
     records |-> <<createSyncMetadata("upload", 1, generateBackupId(-1), -1)>>]

InitDeleted ==
    /\ samePaths \in BOOLEAN
    /\ categories \in CategoryChoices
    /\ fs \in {EmptyFs, LegacyNas}
    /\ machineId = InstalledId
    /\ stamps = NoStamps
    /\ configWrites = 0
    /\ other = Idle
    /\ meta = DeletedBackupLedger
    /\ clock = 0
    /\ ops = 0
    /\ last = NoOp

SpecDeleted == InitDeleted /\ [][Next]_vars

(***************************************************************************)
(* A fifth specification for the layouts of a backup: the destination holds *)
(* the backup that the one upload record of the ledger names, made a second *)
(* before by a machine of unified topology (profile/), alone or next to a   *)
(* roaming/ sub-folder.                                                     *)
(***************************************************************************)
ProfileBackup == Base \o <<generateBackupId(-1)>>

ProfileOnlyNas ==
    [dirs |-> {Base, ProfileBackup, ProfileBackup \o <<"profile">>},
     files |-> (ProfileBackup \o <<"profile", "prefs.js">>) :> 2]

BothLayoutsNas ==
    [dirs |-> {Base, ProfileBackup, ProfileBackup \o <<"profile">>,
               ProfileBackup \o <<"roaming">>},
     files |-> (ProfileBackup \o <<"profile", "prefs.js">>) :> 2 @@
               (ProfileBackup \o <<"roaming", "prefs.js">>) :> 1 @@
               (ProfileBackup \o <<"roaming", "notes.txt">>) :> 1]

InitLayouts ==
    /\ samePaths \in BOOLEAN
    /\ categories \in CategoryChoices
    /\ fs \in {ProfileOnlyNas, BothLayoutsNas}
    /\ machineId = InstalledId
    /\ stamps = NoStamps
    /\ configWrites = 0
    /\ other = Idle
    /\ meta = DeletedBackupLedger
    /\ clock = 0
    /\ ops = 0
    /\ last = NoOp

SpecLayouts == InitLayouts /\ [][Next]_vars

(***************************************************************************)
(* A sixth specification for the first start: the constructor of           *)
(* ZenNasConfig finds no configuration file, takes DEFAULT_CONFIG and      *)
(* calls saveSync(), whose writeFile promise nothing awaits; the write     *)
(* lands at a time of its own.                                             *)
(***************************************************************************)
\* config.ts saveSync: writeFile(...) is started and its promise dropped
saveSync(inFlight) == inFlight + 1

InitFirstRun ==
    /\ samePaths \in BOOLEAN
    /\ categories \in CategoryChoices
    /\ machineId = None
    /\ stamps = NoStamps
    /\ configWrites = saveSync(0)
    /\ other = Idle
    /\ \E d \in InitialDestinations : fs = d[1] /\ meta = d[2]
    /\ clock = 0
    /\ ops = 0
    /\ last = NoOp

\* the write that saveSync started completes
WriteLands ==
    /\ configWrites > 0
    /\ configWrites' = configWrites - 1
    /\ UNCHANGED <<samePaths, categories, fs, meta, machineId, stamps, other, clock, ops,
                   last>>

NextFirstRun == Next \/ WriteLands

SpecFirstRun == InitFirstRun /\ [][NextFirstRun]_vars

(***************************************************************************)
(* A seventh specification for two processes on one destination: another   *)
(* machine finishes an upload and runs saveMetadata on the same ledger     *)
(* file, its read and its write being two steps that the operations of     *)
(* this process may fall between.                                          *)
(***************************************************************************)
OtherMachineId == 0 - 1

\* the record the other machine appends for its upload
OtherRecord(now) ==
    [backupId |-> TimestampStr(now) \o "-otherpc", machineId |-> OtherMachineId,
     timestamp |-> now, syncType |-> "upload", fileCount |-> 0,
     backupPath |-> TimestampStr(now) \o "-otherpc"]

\* both machines keep one profile root; the destination is a fresh one
InitRace ==
    /\ samePaths = TRUE
    /\ categories \in CategoryChoices
    /\ machineId = None
    /\ stamps = NoStamps
    /\ configWrites = 0
    /\ other = Idle
    /\ fs = EmptyFs
    /\ meta = AbsentMeta
    /\ clock = 0
    /\ ops = 0
    /\ last = NoOp

\* the other process reads the ledger file
OtherReads ==
    /\ other.pc = "idle"
    /\ other' = [pc |-> "read", existingMetadata |-> ReadLedger(meta)]
    /\ UNCHANGED <<samePaths, categories, fs, meta, machineId, stamps, configWrites, clock,
                   ops, last>>

\* the other process writes what it read plus its record
OtherWrites ==
    /\ other.pc = "read"
    /\ meta' = WriteLedger(meta, other.existingMetadata, OtherRecord(clock))
    /\ other' = [other EXCEPT !.pc = "done"]
    /\ UNCHANGED <<samePaths, categories, fs, machineId, stamps, configWrites, clock, ops,
                   last>>

NextRace == Next \/ OtherReads \/ OtherWrites

SpecRace == InitRace /\ [][NextRace]_vars

(***************************************************************************)
(* An eighth specification for uploads that copy nothing: the category     *)
(* selection is absent or the empty list of the multiselect prompt, on a   *)
(* fresh destination.                                                      *)
(***************************************************************************)
InitEmptySelection ==
    /\ samePaths \in BOOLEAN
    /\ categories \in {None, Some(<<>>)}
    /\ fs = EmptyFs
    /\ machineId = None
    /\ stamps = NoStamps
    /\ configWrites = 0
    /\ other = Idle
    /\ meta = AbsentMeta
    /\ clock = 0
    /\ ops = 0
    /\ last = NoOp

SpecEmptySelection == InitEmptySelection /\ [][Next]_vars

(***************************************************************************)
(* Properties of the ledger.                                               *)
(***************************************************************************)
\* the operation `last` records ran to its ledger append
Operated == last.op # "none"

\* the records a ledger file yields when read: none when absent or unparsable
Readable(m) == IF m.state = "ok" THEN m.records ELSE <<>>

\* the syncType of the record the last operation writes
RecordType ==
    IF last.op = "sync" /\ last.route = "merge" THEN "sync"
    ELSE IF last.op = "download" THEN "download" ELSE "upload"

\* the newest record of the ledger is the one the last operation made
NewestIsNew ==
    /\ meta.records # <<>>
    /\ LET r == meta.records[Len(meta.records)]
       IN /\ r.syncType = RecordType
          /\ r.timestamp = clock
          /\ r.fileCount = last.total

\* C1: in every reachable state, after any sequence of upload, download and
\* smart-sync operations, the ledger holds at most 50 records.
C1_LedgerAtMost50 == Len(Readable(meta)) <= 50

\* an operation appended to a ledger that was already at its capacity
C1_Witness ==
    /\ Operated /\ last.outcome = "ok"
    /\ Len(last.preMeta.records) = 50
    /\ Len(meta.records) = 50

\* C2: an append onto a readable ledger L with record r leaves the last
\* min(50, |L| + 1) elements of L ++ [r], in the same order.
C2_AppendKeepsNewestInOrder ==
    (Operated /\ last.outcome = "ok" /\ last.preMeta.state = "ok") =>
        /\ NewestIsNew
        /\ LET L == last.preMeta.records
               all == Append(L, meta.records[Len(meta.records)])
               k == Min(50, Len(L) + 1)
           IN meta.records = [i \in 1..k |-> all[Len(all) - k + i]]

\* an append evicted the oldest record of a full ledger
C2_Witness ==
    /\ Operated /\ last.outcome = "ok" /\ last.preMeta.state = "ok"
    /\ Len(last.preMeta.records) = 50
    /\ meta.records[1] = last.preMeta.records[2]
    /\ meta.records[1] # last.preMeta.records[1]

\* C3: an append when the ledger file is absent or unparsable succeeds, and
\* the resulting ledger is exactly the one-element array of the new record.
C3_UnreadableLedgerStartsEmpty ==
    (Operated /\ last.outcome = "ok" /\ last.preMeta.state \in {"absent", "corrupt"}) =>
        /\ meta.state = "ok"
        /\ Len(meta.records) = 1
        /\ NewestIsNew

\* an operation appended to an unparsable ledger file
C3_Witness ==
    /\ Operated /\ last.outcome = "ok"
    /\ last.preMeta.state = "corrupt"
    /\ meta.state = "ok"

\* C4: an operation that completes successfully appends exactly one record,
\* and an operation that fails (a copy error, no backup selected, backup data
\* not found) leaves the ledger as it was.
C4_OneRecordIffSuccess ==
    Operated =>
        IF last.outcome = "ok"
        THEN /\ meta.state = "ok"
             /\ Len(meta.records) = Len(Readable(last.preMeta)) + 1
             /\ SubSeq(meta.records, 1, Len(meta.records) - 1) = Readable(last.preMeta)
             /\ NewestIsNew
        ELSE meta = last.preMeta

\* a copy error after part of the files were copied, on a ledger with a record
C4_Witness ==
    /\ Operated /\ last.outcome = "threw"
    /\ fs # last.preFs
    /\ Len(meta.records) = 1

(***************************************************************************)
(* Properties of smart sync.                                               *)
(***************************************************************************)
\* the newest record of the ledger
Newest == meta.records[Len(meta.records)]

\* the upload records of the ledger the last operation started from
PriorUploads == SelectSeq(Readable(last.preMeta), IsUpload)

\* C5: whenever the ledger holds no upload record, smart sync degrades to
\* upload: it makes a new backup directory and appends one upload record and
\* no sync record, whatever the destination holds, in both topologies.
C5_NoUploadRecordDegrades ==
    (last.op = "sync" /\ PriorUploads = <<>>) =>
        /\ last.route = "degraded"
        /\ last.outcome = "ok" =>
              /\ Newest.syncType = "upload"
              /\ (Base \o <<Newest.backupPath>>) \in fs.dirs
              /\ (Base \o <<Newest.backupPath>>) \notin last.preFs.dirs

\* the directory of the latest upload record was present before the operation
LatestUploadDirPresent ==
    /\ PriorUploads # <<>>
    /\ (Base \o <<PriorUploads[Len(PriorUploads)].backupPath>>) \in last.preFs.dirs

\* C6: whenever the latest upload record exists and its backup directory is
\* present, smart sync does not degrade to upload but merges, in both
\* topologies.
C6_LatestUploadPresentMerges ==
    (last.op = "sync" /\ LatestUploadDirPresent) =>
        /\ last.route = "merge"
        /\ last.outcome = "ok" => Newest.syncType = "sync"

\* C7: smart sync never deletes a file: every path that existed in a local
\* root or in the destination before the operation exists afterwards, on the
\* merge path and on the degraded path, whether or not a copy failed.
C7_SmartSyncDeletesNothing ==
    last.op = "sync" =>
        /\ DOMAIN last.preFs.files \subseteq DOMAIN fs.files
        /\ last.preFs.dirs \subseteq fs.dirs

\* a merge that brought to the local root a file only the destination had
C7_Witness ==
    /\ last.op = "sync" /\ last.route = "merge" /\ last.outcome = "ok"
    /\ \E rel \in Range(RelPaths) :
          /\ (RoamingPath \o rel) \notin DOMAIN last.preFs.files
          /\ (RoamingPath \o rel) \in DOMAIN fs.files
    /\ \E p \in DOMAIN last.preFs.files : IsPrefix(Base, p)

\* the files directly under a directory, by relative path
FilesUnder(f, dir) == {rel \in Range(RelPaths) : (dir \o rel) \in DOMAIN f.files}

\* the first pass of a merge from a local root takes this file
InManifest(rel) ==
    /\ Matches(IncludePatterns(Some(SelectedCategories)), rel)
    /\ ~Matches(Exclude, rel)

\* the pairs <<local root, backup side>> a merge of the last operation syncs
MergePairs ==
    IF samePaths
    THEN LET latestBackup == getLatestBackupPath(last.preMeta)[1]
         IN {<<RoamingPath,
               IF existsSync(last.preFs, latestBackup \o <<"profile">>)
               THEN latestBackup \o <<"profile">> ELSE latestBackup \o <<"roaming">> >>}
    ELSE {<<RoamingPath, Base \o <<"roaming">> >>}
            \cup (IF existsSync(last.preFs, Base \o <<"local">>)
                  THEN {<<LocalPath, Base \o <<"local">> >>} ELSE {})

Merged == last.op = "sync" /\ last.route = "merge" /\ last.outcome = "ok"

\* before the merge the path was on both sides of the pair, with different contents
Conflict(pair, rel) ==
    /\ (pair[1] \o rel) \in DOMAIN last.preFs.files
    /\ (pair[2] \o rel) \in DOMAIN last.preFs.files
    /\ last.preFs.files[pair[1] \o rel] # last.preFs.files[pair[2] \o rel]

\* after the merge both sides of the pair hold content c at the path
BothHold(pair, rel, c) ==
    /\ (pair[1] \o rel) \in DOMAIN fs.files /\ fs.files[pair[1] \o rel] = c
    /\ (pair[2] \o rel) \in DOMAIN fs.files /\ fs.files[pair[2] \o rel] = c

PassSrc == <<"from">>

PassDest == <<"to">>

DirContents == [Range(RelPaths) -> Contents \cup {0}]

PassInput(s, d, destExists) ==
    [dirs |-> {PassSrc} \cup (IF destExists THEN {PassDest} ELSE {}),
     files |-> [p \in {PassSrc \o rel : rel \in {x \in Range(RelPaths) : s[x] # 0}}
                       \cup {PassDest \o rel :
                                rel \in {x \in Range(RelPaths) : destExists /\ d[x] # 0}}
                  |-> IF p[1] = PassSrc[1] THEN s[<<p[2]>>] ELSE d[<<p[2]>>]]]

\* a pass with cleanup and without dryRun leaves under dest exactly its manifest
CleanupPassExact(f, src, dest, exclude, selectedCategories) ==
    LET r == backupPath(f, src, dest, exclude, FALSE, TRUE, selectedCategories, 0)
    IN /\ ~r.threw
       /\ FilesUnder(r.fs, dest) = Range(r.files)
       /\ Range(r.files) = {rel \in FilesUnder(f, src) :
                               /\ MatchesAny(IncludePatterns(selectedCategories), rel)
                               /\ ~MatchesAny(exclude, rel)}

\* the cleanup pass is exact on every input, unfiltered as the download runs
\* it and filtered by the categories and exclusions of the configuration
CleanupExactOnAllInputs ==
    \A s \in DirContents, d \in DirContents, destExists \in BOOLEAN :
        /\ CleanupPassExact(PassInput(s, d, destExists), PassSrc, PassDest, <<>>, None)
        /\ CleanupPassExact(PassInput(s, d, destExists), PassSrc, PassDest, Exclude,
                            Some(CategoryNames))

\* the last operation was a download that ran to its end
Restored == last.op = "download" /\ last.outcome = "ok"

\* the pairs <<backup sub-layout, local root>> the last download restored
RestorePairs ==
    LET backup == ResolveBackupPath(last.preFs, Newest.backupPath)
    IN IF samePaths
       THEN {<<IF existsSync(last.preFs, backup \o <<"profile">>)
               THEN backup \o <<"profile">> ELSE backup \o <<"roaming">>,
               RoamingPath>>}
       ELSE {<<backup \o <<"roaming">>, RoamingPath>>}
               \cup (IF existsSync(last.preFs, backup \o <<"local">>)
                     THEN {<<backup \o <<"local">>, LocalPath>>} ELSE {})

\* C9: after a copy pass with cleanup enabled and dryRun disabled, from an
\* existing source, the files under the destination are exactly the manifest,
\* whatever the destination held; and after a successful download the file set
\* of each restored local root equals that of the backup sub-layout it was
\* restored from.
C9_CleanupLeavesManifest ==
    /\ CleanupExactOnAllInputs
    /\ Restored =>
          \A pair \in RestorePairs :
              FilesUnder(fs, pair[2]) = FilesUnder(last.preFs, pair[1])

\* a download that removed a local file the backup did not hold
C9_Witness ==
    /\ Restored
    /\ \E pair \in RestorePairs, rel \in Range(RelPaths) :
          /\ (pair[2] \o rel) \in DOMAIN last.preFs.files
          /\ (pair[2] \o rel) \notin DOMAIN fs.files
          /\ FilesUnder(fs, pair[2]) # {}

\* the file system with the local roots emptied
EmptyLocal(f) ==
    [f EXCEPT !.files =
        [p \in {q \in DOMAIN @ : \A root \in LocalRoots : ~IsPrefix(root, q)} |-> @[p]]]

\* the files of the local root that its upload pass takes
UploadManifest(f, root) ==
    {rel \in FilesUnder(f, root) :
        /\ Matches(IncludePatterns(Some(SelectedCategories)), rel)
        /\ ~Matches(IF root = RoamingPath THEN Exclude
                    ELSE Exclude \o LocalExtraExclude, rel)}

\* an upload of the local roots during which dt seconds pass, then a download
\* of that upload's entry into the emptied local roots, gives the roots back
\* restricted to the manifest
RoundTrip(dt) ==
    LET up == uploadToNas(fs, meta, clock, dt, NoFault, "upload")
        down == downloadFromNas(EmptyLocal(up.fs), up.meta, Len(Choices(up.meta)),
                                clock + dt, NoFault)
    IN \A root \in LocalRoots :
          /\ FilesUnder(down.fs, root) = UploadManifest(fs, root)
          /\ \A rel \in UploadManifest(fs, root) :
                down.fs.files[root \o rel] = fs.files[root \o rel]

\* C10: for every source tree, an upload followed by a download that selects
\* that upload's ledger entry into an empty local root leaves the local root
\* identical to the tree restricted to the manifest, whatever time elapsed
\* during the upload.
C10_RoundTripAnyElapsed == \A dt \in 0..1 : RoundTrip(dt)

(***************************************************************************)
(* Properties of the backup id, the latest upload and the dry run.         *)
(***************************************************************************)
\* the last operation was an upload, asked for or degraded to, that ran to its end
Uploaded == last.route \in {"upload", "degraded"} /\ last.outcome = "ok"

\* the directories directly under the destination that the last operation made
NewBackupDirs == {d \in fs.dirs \ last.preFs.dirs : Len(d) = Len(Base) + 1 /\ IsPrefix(Base, d)}

\* C11: the upload record an upload appends carries as its backupId the name
\* of the backup directory the upload created under the destination, however
\* the clock ticks during the upload.
C11_RecordIdNamesBackupDir ==
    Uploaded =>
        /\ (Base \o <<Newest.backupId>>) \in fs.dirs
        /\ \A d \in NewBackupDirs : d = Base \o <<Newest.backupId>>

\* the upload records of a ledger, by position
UploadPositions(m) == {i \in 1..Len(Readable(m)) : Readable(m)[i].syncType = "upload"}

\* C12: latestUpload yields the last record of type upload in ledger order,
\* whatever download or sync records follow it, as the destination joined with
\* the record's stored folder name, and null when the ledger is absent,
\* unparsable or holds no upload record.
C12_LatestUploadIsLastUpload ==
    IF UploadPositions(meta) = {}
    THEN getLatestBackupPath(meta) = None
    ELSE LET i == CHOOSE k \in UploadPositions(meta) :
                      \A j \in UploadPositions(meta) : j <= k
         IN getLatestBackupPath(meta) = Some(Base \o <<meta.records[i].backupPath>>)

\* an upload record followed by a record of another type
C12_Witness ==
    /\ UploadPositions(meta) # {}
    /\ Newest.syncType # "upload"
    /\ getLatestBackupPath(meta) # None

\* a pass with dryRun leaves the file system as it is and returns the count of
\* the same pass without dryRun
DryRunFrame(f, src, dest, exclude, cleanup, selectedCategories) ==
    LET dry == backupPath(f, src, dest, exclude, TRUE, cleanup, selectedCategories, 0)
        wet == backupPath(f, src, dest, exclude, FALSE, cleanup, selectedCategories, 0)
    IN /\ dry.fs = f
       /\ ~dry.threw
       /\ dry.count = wet.count

\* the dry run on every input of a pass, from a source present or missing
DryRunFrameOnAllInputs ==
    \A s \in DirContents, d \in DirContents, destExists \in BOOLEAN,
       cleanup \in BOOLEAN, src \in {PassSrc, <<"missing">>} :
        /\ DryRunFrame(PassInput(s, d, destExists), src, PassDest, <<>>, cleanup, None)
        /\ DryRunFrame(PassInput(s, d, destExists), src, PassDest, Exclude, cleanup,
                       Some(CategoryNames))

\* the backup sub-layouts and merge directories present under the destination
BackupSubDirs(f) ==
    {d \in f.dirs : IsPrefix(Base, d) /\ Len(d) > Len(Base)
                    /\ d[Len(d)] \in {"profile", "roaming", "local"}}

\* C13: a copy pass with dryRun set changes nothing in the source or the
\* destination tree, also when cleanup is set, and returns the count the same
\* pass returns without dryRun.
C13_DryRunChangesNothing ==
    /\ DryRunFrameOnAllInputs
    /\ Uploaded =>
          \A src \in BackupSubDirs(fs) :
              DryRunFrame(fs, src, RoamingPath, <<>>, TRUE, None)

\* a state in which the pass without dryRun would copy a file into a local
\* root and remove a stale file from it
C13_Witness ==
    \E src \in BackupSubDirs(fs) :
        LET dry == backupPath(fs, src, RoamingPath, <<>>, TRUE, TRUE, None, 0)
            wet == backupPath(fs, src, RoamingPath, <<>>, FALSE, TRUE, None, 0)
        IN /\ dry.count > 0
           /\ FilesUnder(fs, RoamingPath) \ Range(dry.files) # {}
           /\ wet.fs # fs
           /\ dry.fs = fs

(***************************************************************************)
(* Properties of the backup resolution and of the download that fails.     *)
(***************************************************************************)
\* the date-time part YYYYMMDD-HHMMSS of a backup id
DateTimePart(id) == SubSeq(id, 1, 15)

\* the string holds the part at some offset
Contains(s, part) ==
    \E k \in 0..(Len(s) - Len(part)) : SubSeq(s, k + 1, k + Len(part)) = part

\* the positions in the listing of the directories whose name holds the
\* date-time part of the id
FallbackPositions(f, id) ==
    {i \in 1..Len(NasNames) :
        /\ (Base \o <<NasNames[i]>>) \in f.dirs
        /\ Contains(NasNames[i], DateTimePart(id))}

\* the resolution of the id is the literal directory when it exists, else the
\* first listed directory of the date-time part, else nothing that exists
ResolvedAsStated(f, id) ==
    IF existsSync(f, Base \o <<id>>)
    THEN ResolveBackupPath(f, id) = Base \o <<id>>
    ELSE IF FallbackPositions(f, id) # {}
    THEN \E i \in FallbackPositions(f, id) :
            /\ \A j \in FallbackPositions(f, id) : i <= j
            /\ ResolveBackupPath(f, id) = Base \o <<NasNames[i]>>
    ELSE ~existsSync(f, ResolveBackupPath(f, id))

\* the names a resolution is tried on, each absent, a directory or a file
ResolverNames ==
    {generateBackupId(0), generateBackupId(0) \o "-old",
     TimestampStr(0) \o "-otherpc", generateBackupId(1)}

ResolverInput(kind) ==
    [dirs |-> {Base} \cup {Base \o <<n>> : n \in {x \in ResolverNames : kind[x] = "dir"}},
     files |-> [p \in {Base \o <<n>> : n \in {x \in ResolverNames : kind[x] = "file"}}
                  |-> 1]]

ResolvedAsStatedOnAllInputs ==
    \A kind \in [ResolverNames -> {"absent", "dir", "file"}] :
        \A id \in {generateBackupId(0), generateBackupId(1), TimestampStr(0) \o "-alice"} :
            ResolvedAsStated(ResolverInput(kind), id)

\* the ids the last operation could be asked to resolve
ChoiceIds == {Choices(last.preMeta)[i].backupId : i \in 1..Len(Choices(last.preMeta))}

\* C14: the resolution for download uses the literal directory
\* <destRoot>/<backupId> whenever it exists; only when it is absent does it
\* take the first directory, in listing order, whose name contains the id's
\* first two '-'-delimited segments; with neither, it resolves to nothing.
C14_ResolverLiteralThenFallback ==
    /\ ResolvedAsStatedOnAllInputs
    /\ last.op = "download" => \A id \in ChoiceIds : ResolvedAsStated(last.preFs, id)

\* a download that restored from a directory found by the fallback
C14_Witness ==
    /\ Restored
    /\ ~existsSync(last.preFs, Base \o <<Newest.backupPath>>)
    /\ FallbackPositions(last.preFs, Newest.backupPath) # {}
    /\ fs # last.preFs

\* the id resolves to no directory in the file system
Unresolved(f, id) == ResolveBackupPath(f, id) \notin f.dirs

\* a download of an id that resolves to no directory changes neither the file
\* system nor the ledger, whatever copy would have failed
AbortsUntouched(pick, fault) ==
    LET r == downloadFromNas(fs, meta, pick, clock, fault)
    IN Unresolved(fs, Choices(meta)[pick].backupId) =>
          /\ r.fs = fs
          /\ r.meta = meta
          /\ r.outcome # "ok"

\* no entry the last operation could choose resolved to a directory
NoneResolves ==
    \A i \in 1..Len(Choices(last.preMeta)) :
        Unresolved(last.preFs, Choices(last.preMeta)[i].backupId)

\* C15: when the chosen backup id resolves to no directory, neither literally
\* nor by the fallback, the download aborts before any copy: no file of a local
\* root is created, overwritten or deleted and no record is appended.
C15_UnresolvedDownloadTouchesNothing ==
    /\ \A pick \in 1..Len(Choices(meta)) : AbortsUntouched(pick, NoFault)
    /\ (last.op = "download" /\ NoneResolves) =>
          /\ fs = last.preFs
          /\ meta = last.preMeta
          /\ last.outcome # "ok"

\* a download of an entry whose directory is not found, with files in a local root
C15_Witness ==
    /\ last.op = "download" /\ last.outcome = "backup-data-not-found"
    /\ NoneResolves
    /\ FilesUnder(fs, RoamingPath) # {}

(***************************************************************************)
(* Properties of what the caller sees of an operation.                     *)
(***************************************************************************)
\* the operation ended without completing its copy passes and ledger append
Aborted == Operated /\ last.outcome # "ok"

\* C16: every condition that ends an operation early, in particular a backup
\* that cannot be found and a ledger that yields no backup to select, reaches
\* the caller as an error: the caller never goes on as after a success.
C16_AbortReachesCallerAsError == Aborted => ~last.stamped

(***************************************************************************)
(* Properties of the category selection and of the manifest.               *)
(***************************************************************************)
\* no category is selected: the selection is absent or empty
NoSelection == categories = None \/ categories = Some(<<>>)

\* the manifest of a root under the patterns of every category
AllCategoriesManifest(f, src, exclude) ==
    IF existsSync(f, src) THEN fg(f, IncludePatterns(Some(CategoryNames)), src, exclude)
    ELSE <<>>

\* the last operation was an upload that completed
UploadCompleted == last.op = "upload" /\ last.outcome = "ok"

\* C17: with no category selected (absent or empty) the include patterns of
\* an upload are those of all categories, and the upload backs up the files
\* that selecting every category backs up.
C17_NoSelectionMeansAllCategories ==
    NoSelection =>
        /\ IncludePatterns(Some(SelectedCategories)) = IncludePatterns(Some(CategoryNames))
        /\ UploadCompleted =>
              last.total =
                  Len(AllCategoriesManifest(last.preFs, RoamingPath, Exclude))
                  + (IF samePaths THEN 0
                     ELSE Len(AllCategoriesManifest(last.preFs, LocalPath,
                                                    Exclude \o LocalExtraExclude)))

\* the manifest of cwd holds exactly the regular files that match an include
\* pattern and no exclude pattern, each once
ManifestAsStated(f, include, cwd, ignore) ==
    LET manifest == fg(f, include, cwd, ignore)
    IN /\ \A rel \in Range(RelPaths) :
             rel \in Range(manifest) <=>
                 /\ (cwd \o rel) \in DOMAIN f.files
                 /\ \E i \in 1..Len(include) : GlobMatch(include[i], rel)
                 /\ \A i \in 1..Len(ignore) : ~GlobMatch(ignore[i], rel)
       /\ Range(manifest) \subseteq Range(RelPaths)
       /\ Cardinality(Range(manifest)) = Len(manifest)

\* include lists in which no, one or several patterns match a file
IncludeLists ==
    {<<>>, << <<"**", "*">> >>, << <<"**", "prefs.js">>, <<"*.js">>, <<"**", "*">> >>,
     << <<"*.txt">>, <<"notes.*">>, <<"chrome", "**", "*">> >>,
     IncludePatterns(Some(CategoryNames))}

ExcludeLists ==
    {<<>>, Exclude, << <<"**", "*.js">> >>, << <<"notes.txt">>, <<"**", "*.txt">> >>,
     << <<"**", "*">> >>}

\* the trees of a source root: each path absent, a file or a directory
ManifestTrees ==
    {[dirs |-> {PassSrc} \cup {PassSrc \o rel : rel \in {x \in Range(RelPaths) : k[x] = "dir"}},
      files |-> [q \in {PassSrc \o rel : rel \in {x \in Range(RelPaths) : k[x] = "file"}}
                  |-> 1]] : k \in [Range(RelPaths) -> {"absent", "file", "dir"}]}

ManifestAsStatedOnAllInputs ==
    \A t \in ManifestTrees, include \in IncludeLists, ignore \in ExcludeLists :
        ManifestAsStated(t, include, PassSrc, ignore)

MissingRoots(f) ==
    {root \in (IF samePaths THEN {RoamingPath} ELSE {RoamingPath, LocalPath}) :
        ~existsSync(f, root)}

\* the manifest an upload builds for a root: nothing when the root is missing
RootManifest(f, root) ==
    IF ~existsSync(f, root) THEN <<>>
    ELSE fg(f, IncludePatterns(Some(SelectedCategories)), root,
            IF root = LocalPath THEN Exclude \o LocalExtraExclude ELSE Exclude)

\* the sub-directory of a backup that holds the files of a root
BackupSub(root) ==
    IF samePaths THEN "profile" ELSE IF root = LocalPath THEN "local" ELSE "roaming"

\* the result r of an upload from f at second now raised no error, holds the
\* manifest files of every root and appended an upload record with their count
UploadedAllRoots(r, f, now) ==
    /\ r.outcome = "ok"
    /\ r.appends = 1
    /\ r.meta.records # <<>>
    /\ r.meta.records[Len(r.meta.records)].syncType = "upload"
    /\ r.meta.records[Len(r.meta.records)].fileCount =
          Len(RootManifest(f, RoamingPath))
          + (IF samePaths THEN 0 ELSE Len(RootManifest(f, LocalPath)))
    /\ \A root \in {RoamingPath} \cup (IF samePaths THEN {} ELSE {LocalPath}) :
          \A i \in 1..Len(RootManifest(f, root)) :
              LET d == Base \o <<generateBackupId(now), BackupSub(root)>>
                           \o RootManifest(f, root)[i]
              IN d \in DOMAIN r.fs.files /\ r.fs.files[d] = f.files[root \o RootManifest(f, root)[i]]

\* C19: a missing source root is not fatal to an upload: the pass over it
\* copies zero files and raises no error, the other root of a split topology
\* is still uploaded and an upload record with the other root's count is
\* appended.
C19_MissingRootNotFatal ==
    MissingRoots(fs) # {} =>
        UploadedAllRoots(uploadToNas(fs, meta, clock, 0, NoFault, "upload"), fs, clock)

\* an upload in split topology without a local root that copied from the
\* roaming root
C19_Witness ==
    /\ UploadCompleted
    /\ ~samePaths
    /\ MissingRoots(last.preFs) = {LocalPath}
    /\ last.total > 0
    /\ Newest.fileCount = Len(RootManifest(last.preFs, RoamingPath))
    /\ Len(meta.records) = Len(Readable(last.preMeta)) + 1

(***************************************************************************)
(* Properties of a ledger and a destination that diverge.                  *)
(***************************************************************************)
\* the latest upload record of ledger m names a directory that f lacks
LatestUploadDirDeleted(f, m) ==
    /\ getLatestBackupPath(m) # None
    /\ ~existsSync(f, getLatestBackupPath(m)[1])

\* the directories directly under the destination that no record names
UnlistedDirs(f, m) ==
    {d \in f.dirs : /\ Len(d) = Len(Base) + 1
                    /\ IsPrefix(Base, d)
                    /\ \A i \in 1..Len(Readable(m)) :
                          d # Base \o <<Readable(m)[i].backupPath>>}

\* without a failing copy no operation started in this state throws
NoOperationFails ==
    /\ uploadToNas(fs, meta, clock, 0, NoFault, "upload").outcome # "threw"
    /\ smartSync(fs, meta, clock, 0, NoFault).outcome # "threw"
    /\ \A pick \in 0..Len(Choices(meta)) :
          downloadFromNas(fs, meta, pick, clock, NoFault).outcome # "threw"

\* C20: ledger and file system may diverge without a crash: with a latest
\* upload record whose directory was deleted, smart sync degrades to upload
\* and the listing of backups reports that entry as missing; a backup directory
\* without a ledger entry makes no operation fail.
C20_DivergenceTolerated ==
    /\ (last.op = "sync" /\ LatestUploadDirDeleted(last.preFs, last.preMeta)) =>
          last.route = "degraded"
    /\ LatestUploadDirDeleted(fs, meta) =>
          /\ listAvailableBackups(fs, meta) # <<>>
          /\ ~listAvailableBackups(fs, meta)[1].exists
    /\ UnlistedDirs(fs, meta) # {} => NoOperationFails

(***************************************************************************)
(* Properties of the record a smart sync appends.                          *)
(***************************************************************************)
\* the sentinel smartSync stores as the backupPath of a sync record
SyncPathSentinel == "smart-sync"

\* C21: a smart sync on the merge path creates no new backup directory under
\* the destination root and, when it completes, appends one record of type
\* sync whose backupPath is the sentinel, which names no directory there.
C21_MergeRecordsSentinel ==
    (last.op = "sync" /\ last.route = "merge") =>
        /\ NewBackupDirs = {}
        /\ last.outcome = "ok" =>
              /\ Len(meta.records) = Len(Readable(last.preMeta)) + 1
              /\ Newest.syncType = "sync"
              /\ Newest.backupPath = SyncPathSentinel
              /\ (Base \o <<Newest.backupPath>>) \notin fs.dirs

\* a completed merge that brought a file to the local root and changed one
\* under the destination
C21_Witness ==
    /\ Merged
    /\ Newest.backupPath = SyncPathSentinel
    /\ \E p \in DOMAIN fs.files : ~IsPrefix(Base, p) /\ p \notin DOMAIN last.preFs.files
    /\ \E p \in DOMAIN last.preFs.files : IsPrefix(Base, p) /\ fs.files[p] # last.preFs.files[p]

(***************************************************************************)
(* Properties of the backup id.                                            *)
(***************************************************************************)
\* every character of s is a decimal digit
AllDigits(s) == \A i \in 1..Len(s) : Includes(Digits, SubSeq(s, i, i))

\* the id matches ^\d{8}-\d{6}-[a-z0-9]{1,8}$
MatchesIdFormat(id) ==
    /\ Len(id) \in 17..24
    /\ AllDigits(SubSeq(id, 1, 8))
    /\ SubSeq(id, 9, 9) = "-"
    /\ AllDigits(SubSeq(id, 10, 15))
    /\ SubSeq(id, 16, 16) = "-"
    /\ \A i \in 17..Len(id) : IsLowerAlnum(SubSeq(id, i, i))

\* hostnames: plain, mixed case with separators, longer than 8 characters,
\* empty, and without any character of [A-Za-z0-9]
Hostnames == {Hostname, "", "a", "My_Laptop.local", "WORKSTATION-0042", "--"}

IdFormatOnAllHostnames ==
    \A h \in Hostnames, now \in 0..MaxClock : MatchesIdFormat(generateBackupIdOn(h, now))

\* C22: for every hostname generateBackupId returns a string that matches
\* ^\d{8}-\d{6}-[a-z0-9]{1,8}$: a date-time to the second, then a non-empty
\* machine part of at most 8 lower-case alphanumeric characters.
C22_BackupIdFormat ==
    /\ IdFormatOnAllHostnames
    /\ \A i \in 1..Len(meta.records) : MatchesIdFormat(meta.records[i].backupId)

(***************************************************************************)
(* Properties of the configuration state.                                  *)
(***************************************************************************)
\* C23: the machine identifier is generated at most once: an operation that
\* starts with a machineId in the configuration leaves it unchanged, and every
\* record this configuration appended carries that machineId.
C23_MachineIdStable ==
    /\ (Operated /\ last.preId # None) => machineId = last.preId
    /\ (Operated /\ last.appends = 1) =>
          machineId # None /\ Newest.machineId = machineId[1]
    /\ \A i \in 1..Len(meta.records) :
          machineId # None /\ meta.records[i].machineId = machineId[1]

\* an operation that appended a record to a ledger holding one of an earlier
\* operation, which had generated the machineId
C23_Witness ==
    /\ Operated
    /\ last.appends = 1
    /\ last.preId # None
    /\ Len(meta.records) >= 2

\* the timestamps of the configuration that differ from those the last
\* operation started with
StampsChanged == {k \in DOMAIN stamps : stamps[k] # last.preStamps[k]}

\* C24: state.lastUpload, state.lastDownload and state.lastSync are updated
\* only after the corresponding operation succeeded: a download that selected
\* no backup or found no backup data, and any operation that failed, leaves
\* the timestamps unchanged.
C24_StampOnlyAfterSuccess ==
    Operated =>
        /\ StampsChanged \subseteq {last.op}
        /\ last.outcome # "ok" => StampsChanged = {}

(***************************************************************************)
(* Properties of an operation that a failing copy interrupts.              *)
(***************************************************************************)
\* the last operation was interrupted by a copy that failed
Interrupted == Operated /\ last.outcome = "threw"

\* C25: the ledger write is the last file-system mutation of an operation: it
\* follows every copy and every cleanup deletion, so an operation interrupted
\* before it leaves the ledger exactly as it was, even though files were
\* partially copied, and the record of a completed one counts all its copies.
C25_LedgerWrittenLast ==
    /\ Interrupted => meta = last.preMeta
    /\ (Operated /\ last.appends = 1) => Newest.fileCount = last.total

\* an operation interrupted after it had copied a file, with a ledger that
\* held a record before
C25_Witness ==
    /\ Interrupted
    /\ \E p \in DOMAIN fs.files :
          p \notin DOMAIN last.preFs.files \/ fs.files[p] # last.preFs.files[p]
    /\ last.preMeta.records # <<>>
    /\ meta = last.preMeta

\* the file at path p is in g what it is in f: absent, or of the same content
SameAt(f, g, p) ==
    IF p \in DOMAIN f.files THEN p \in DOMAIN g.files /\ g.files[p] = f.files[p]
    ELSE p \notin DOMAIN g.files

\* a pass whose k-th copy fails throws, has copied the files before the k-th,
\* has left the k-th and the later ones as they were and has deleted nothing
FailsFast(f, src, dest, exclude, cleanup, selectedCategories, k) ==
    LET files == fg(f, IncludePatterns(selectedCategories), src, exclude)
        r == backupPath(f, src, dest, exclude, FALSE, cleanup, selectedCategories, k)
    IN (existsSync(f, src) /\ k \in 1..Len(files)) =>
          /\ r.threw
          /\ r.count = k - 1
          /\ \A i \in 1..(k - 1) :
                /\ (dest \o files[i]) \in DOMAIN r.fs.files
                /\ r.fs.files[dest \o files[i]] = f.files[src \o files[i]]
          /\ \A i \in k..Len(files) : SameAt(f, r.fs, dest \o files[i])
          /\ \A rel \in Range(RelPaths) \ Range(files) : SameAt(f, r.fs, dest \o rel)
          /\ \A rel \in Range(RelPaths) : SameAt(f, r.fs, src \o rel)

\* the failing pass on every source and destination content, with and without
\* cleanup, unfiltered and filtered
FailsFastOnAllInputs ==
    \A s \in DirContents, d \in DirContents, destExists \in BOOLEAN,
       cleanup \in BOOLEAN, k \in 1..Len(RelPaths) :
        /\ FailsFast(PassInput(s, d, destExists), PassSrc, PassDest, <<>>, cleanup, None, k)
        /\ FailsFast(PassInput(s, d, destExists), PassSrc, PassDest, Exclude, cleanup,
                     Some(CategoryNames), k)

\* C26: a copy pass is fail-fast: when the copy of the k-th manifest file
\* fails, the error propagates, no later manifest file is copied, no cleanup
\* deletion runs and the files copied before the failure stay in the
\* destination.
C26_CopyPassFailsFast ==
    /\ FailsFastOnAllInputs
    /\ Uploaded =>
          \A src \in BackupSubDirs(fs), k \in 1..Len(RelPaths) :
              FailsFast(fs, src, RoamingPath, <<>>, TRUE, None, k)

\* a merge interrupted in its pass towards a local root after that pass had
\* copied a file: the file is there and a later file of the source is not
C26_Witness ==
    /\ Interrupted
    /\ last.op = "sync" /\ last.route = "merge"
    /\ \E pair \in MergePairs, rel \in Range(RelPaths), later \in Range(RelPaths) :
          /\ (pair[1] \o rel) \notin DOMAIN last.preFs.files
          /\ (pair[1] \o rel) \in DOMAIN fs.files
          /\ (pair[2] \o later) \in DOMAIN fs.files
          /\ (pair[1] \o later) \notin DOMAIN fs.files

(***************************************************************************)
(* Properties of the layout a download restores from.                      *)
(***************************************************************************)
\* the files and contents directly under a directory
ContentUnder(f, dir) == [rel \in FilesUnder(f, dir) |-> f.files[dir \o rel]]

\* a download of the pick-th entry, whose resolved directory holds profile/,
\* completes and leaves in the roaming root the content of profile/
RestoresFromProfile(pick) ==
    LET dir == ResolveBackupPath(fs, Choices(meta)[pick].backupId)
        r == downloadFromNas(fs, meta, pick, clock, NoFault)
    IN existsSync(fs, dir \o <<"profile">>) =>
          /\ r.outcome = "ok"
          /\ ContentUnder(r.fs, RoamingPath) = ContentUnder(fs, dir \o <<"profile">>)

\* C27: download checks the layouts of the resolved backup directory in the
\* order profile/ then roaming/: whenever the directory holds profile/ the
\* download restores from it, in either topology of the local roots.
C27_ProfileLayoutFirst ==
    \A pick \in 1..Len(Choices(meta)) : RestoresFromProfile(pick)

(***************************************************************************)
(* Properties of the two directions of a merge.                            *)
(***************************************************************************)
\* after the merge of a pair: what the backup side holds the local root holds
\* with the same content, the local manifest files are on the backup side, and
\* a local file outside the manifest that the backup side lacked is not there
MergedBothWays(pair) ==
    /\ \A rel \in FilesUnder(fs, pair[2]) :
          /\ (pair[1] \o rel) \in DOMAIN fs.files
          /\ fs.files[pair[1] \o rel] = fs.files[pair[2] \o rel]
    /\ \A rel \in FilesUnder(last.preFs, pair[1]) :
          IF InManifest(rel)
          THEN (pair[2] \o rel) \in DOMAIN fs.files
          ELSE (pair[2] \o rel) \notin DOMAIN last.preFs.files =>
                  (pair[2] \o rel) \notin DOMAIN fs.files

\* C28: after a smart sync on the merge path every file of the backup
\* directory is in the local root with identical content, every local file of
\* the filtered manifest is in the backup directory, and a local-only file
\* outside the manifest is not propagated to the backup.
C28_MergeDirections == Merged => \A pair \in MergePairs : MergedBothWays(pair)

\* a merge that took a file outside the manifest from the backup side to the
\* local root and a manifest file from a local root to the backup side
C28_Witness ==
    /\ Merged
    /\ \E pair \in MergePairs, rel \in Range(RelPaths) :
          /\ ~InManifest(rel)
          /\ (pair[2] \o rel) \in DOMAIN last.preFs.files
          /\ (pair[1] \o rel) \notin DOMAIN last.preFs.files
          /\ (pair[1] \o rel) \in DOMAIN fs.files
    /\ \E pair \in MergePairs, rel \in Range(RelPaths) :
          /\ InManifest(rel)
          /\ (pair[1] \o rel) \in DOMAIN last.preFs.files
          /\ (pair[2] \o rel) \in DOMAIN fs.files
          /\ fs.files[pair[2] \o rel] = last.preFs.files[pair[1] \o rel]

\* the selected names that the catalog holds
KnownSelected == SelectSeq(SelectedCategories, LAMBDA c : c \in Range(CategoryNames))

\* C29: a selected category name that is not in the catalog contributes no
\* include pattern and raises no error: the patterns are those of the known
\* selected categories, and an upload with such a selection does not throw.
C29_UnknownCategoryIgnored ==
    /\ IncludePatterns(Some(SelectedCategories)) = IncludePatterns(Some(KnownSelected))
    /\ existsSync(fs, RoamingPath) =>
          uploadToNas(fs, meta, clock, 0, NoFault, "upload").outcome = "ok"


(***************************************************************************)
(* Properties of the file count an operation records.                      *)
(***************************************************************************)
\* the files a copy pass from src takes out of f: those the selected
\* categories include and the exclude list leaves when the pass is filtered,
\* every file under src otherwise
TakenBy(f, src, filtered, exclude) ==
    {rel \in FilesUnder(f, src) :
        filtered => /\ Matches(IncludePatterns(Some(SelectedCategories)), rel)
                    /\ ~Matches(exclude, rel)}

\* the passes of an upload: one per root
UploadPassCounts ==
    Cardinality(TakenBy(last.preFs, RoamingPath, TRUE, Exclude))
    + (IF samePaths THEN 0
       ELSE Cardinality(TakenBy(last.preFs, LocalPath, TRUE, Exclude \o LocalExtraExclude)))

\* the passes of a download: one per restored root of the resolved directory
DownloadPassCounts ==
    LET dir == ResolveBackupPath(last.preFs, Newest.backupPath)
    IN IF samePaths
       THEN Cardinality(TakenBy(last.preFs,
                                IF existsSync(last.preFs, dir \o <<"profile">>)
                                THEN dir \o <<"profile">> ELSE dir \o <<"roaming">>,
                                FALSE, <<>>))
       ELSE Cardinality(TakenBy(last.preFs, dir \o <<"roaming">>, FALSE, <<>>))
            + Cardinality(TakenBy(last.preFs, dir \o <<"local">>, FALSE, <<>>))

\* both directions of a merged pair: the manifest of the local root, then
\* every file the backup side holds once the first direction has run
PairPassCounts(pair) ==
    Cardinality(TakenBy(last.preFs, pair[1], TRUE, Exclude))
    + Cardinality(TakenBy(fs, pair[2], FALSE, <<>>))

MergePassCounts ==
    PairPassCounts(CHOOSE pair \in MergePairs : pair[1] = RoamingPath)
    + (IF ~samePaths /\ \E pair \in MergePairs : pair[1] = LocalPath
       THEN PairPassCounts(CHOOSE pair \in MergePairs : pair[1] = LocalPath)
       ELSE 0)

\* the sum of the counts of the copy passes of the last operation
SumOfPassCounts ==
    IF last.route = "merge" THEN MergePassCounts
    ELSE IF last.route = "download" THEN DownloadPassCounts
    ELSE UploadPassCounts

\* C30: the fileCount of the record an operation appends is the sum of the
\* counts of its copy passes: one pass per uploaded or restored root, both
\* directions of every merged pair; an upload whose manifest is one file
\* appends an upload record with fileCount 1.
C30_FileCountIsSumOfPasses ==
    (Operated /\ last.appends = 1) =>
        /\ Newest.fileCount = SumOfPassCounts
        /\ last.route \in {"upload", "degraded"} => Newest.syncType = "upload"

\* an upload from a root with two files of which the manifest holds one
\* appended an upload record with fileCount 1
C30_Witness ==
    /\ last.op = "upload" /\ last.outcome = "ok" /\ last.appends = 1
    /\ Cardinality(FilesUnder(last.preFs, RoamingPath)) = 2
    /\ SumOfPassCounts = 1
    /\ Newest.fileCount = 1
    /\ Newest.syncType = "upload"


(***************************************************************************)
(* Properties of uploads that share a backup directory.                    *)
(***************************************************************************)
\* hostnames of which some agree on the sanitized prefix: two that differ
\* after the 8th character, and the name os.hostname() || "Unknown" stands for
CollidingHostnames ==
    {Hostname, "host.pc", "a", "WORKSTATION-0042", "Workstation_0099", "", "unknown", "--"}

StartSeconds == (0 - 1)..MaxClock

\* two ids are the same exactly for the same second and the same prefix
SameIdIffSameSecondAndPrefix ==
    \A h1 \in CollidingHostnames, h2 \in CollidingHostnames :
        \A t1 \in StartSeconds, t2 \in StartSeconds :
            (generateBackupIdOn(h1, t1) = generateBackupIdOn(h2, t2))
                <=> (t1 = t2 /\ MachineNamePart(h1) = MachineNamePart(h2))

\* the upload records before the last operation that name the directory of
\* the record it appended
EarlierUploads ==
    {i \in 1..Len(last.preMeta.records) :
        /\ IsUpload(last.preMeta.records[i])
        /\ last.preMeta.records[i].backupPath = Newest.backupPath}

InBackup(id, p) == IsPrefix(Base \o <<id>>, p)

\* the upload went into the directory of an earlier one: nothing there was
\* removed, the manifest files hold the local content, both records are kept
MergedIntoEarlier ==
    /\ existsSync(last.preFs, Base \o <<Newest.backupPath>>)
    /\ \A p \in DOMAIN last.preFs.files :
          InBackup(Newest.backupPath, p) => p \in DOMAIN fs.files
    /\ \A root \in LocalRoots : \A rel \in Range(RootManifest(last.preFs, root)) :
          LET d == Base \o <<Newest.backupPath, BackupSub(root)>> \o rel
          IN d \in DOMAIN fs.files /\ fs.files[d] = last.preFs.files[root \o rel]
    /\ meta.records = Append(last.preMeta.records, Newest)

\* what the destination holds outside the upload's directory is as before
OtherBackupsAsBefore ==
    \A p \in DOMAIN last.preFs.files \cup DOMAIN fs.files :
        (IsPrefix(Base, p) /\ ~InBackup(Newest.backupPath, p)) =>
            /\ p \in DOMAIN last.preFs.files /\ p \in DOMAIN fs.files
            /\ fs.files[p] = last.preFs.files[p]

SavesOfLast ==
    (IF machineId # last.preId THEN 1 ELSE 0) + (IF last.stamped THEN 1 ELSE 0)

\* C32: every asynchronous I/O call is awaited before the next step begins,
\* so no write of the configuration file is in flight when the process is
\* between two steps, and no operation saves the configuration while an
\* earlier write of it is in flight.
C32_WritesNeverOverlap ==
    /\ configWrites = 0
    /\ Operated => (SavesOfLast > 0 => configWrites = 0)


(***************************************************************************)
(* Properties of two processes appending to one ledger.                    *)
(***************************************************************************)
\* the last operation of this process appended its record, the other process
\* had read the same ledger before and has written after
BothReadBeforeEitherWrote ==
    /\ Operated /\ last.appends = 1
    /\ other.pc = "done"
    /\ other.existingMetadata = ReadLedger(last.preMeta)

\* C33: the ledger append is an unlocked read-modify-write: when two
\* processes append to the ledger of one destination and both read it before
\* either writes, the final ledger is the array the last writer read plus the
\* last writer's record, and the record of the other process is lost.
C33_LastWriterWins ==
    BothReadBeforeEitherWrote =>
        /\ meta.state = "ok"
        /\ Newest.machineId = OtherMachineId
        /\ meta.records = Slice(Append(ReadLedger(last.preMeta), Newest), -MAX_ENTRIES)
        /\ \A i \in 1..Len(meta.records) :
              meta.records[i].machineId = machineId[1] =>
                  /\ i <= Len(ReadLedger(last.preMeta))
                  /\ meta.records[i] = ReadLedger(last.preMeta)[i]

\* both processes read the ledger of one record, this process appended its
\* record, and the write of the other process left that ledger plus one record
C33_Witness ==
    /\ BothReadBeforeEitherWrote
    /\ Len(ReadLedger(last.preMeta)) = 1
    /\ Len(meta.records) = 2
    /\ Newest.machineId = OtherMachineId


(***************************************************************************)
(* Properties of a copy pass from a source that does not exist.            *)
(***************************************************************************)
\* directories a pass reads from: a local root, the merge target and the
\* sub-folders of a backup
PassSources ==
    {LocalPath, Base \o <<"roaming">>, ProfileBackup \o <<"roaming">>,
     ProfileBackup \o <<"local">>}

\* directories a pass writes to: a local root and a sub-folder of a backup
PassDests == {RoamingPath, ProfileBackup \o <<"profile">>}

\* r is what a pass into dest over f with no source leaves: count 0, no
\* error, every file as before, and dest made unless the run is dry
LeavesOnlyDest(r, f, dest, dryRun) ==
    /\ r.count = 0
    /\ ~r.threw
    /\ r.fs.files = f.files
    /\ r.fs.dirs = IF dryRun THEN f.dirs
                   ELSE f.dirs \cup {SubSeq(dest, 1, k) : k \in 1..Len(dest)}

\* C34: a copy pass whose source root does not exist deletes no destination
\* file, with cleanup enabled or not: it returns 0 before the cleanup step,
\* and unless the run is dry its only effect is that the destination
\* directory exists.
C34_MissingSourceDeletesNothing ==
    \A src \in PassSources, dest \in PassDests :
        (Operated /\ src # dest /\ ~existsSync(fs, src)) =>
            \A cleanup \in BOOLEAN, dryRun \in BOOLEAN :
                LeavesOnlyDest(backupPath(fs, src, dest, Exclude, dryRun, cleanup,
                                          None, 0),
                               fs, dest, dryRun)

\* a pass with cleanup from a backup sub-folder that does not exist into a
\* local root that holds files left every one of them
C34_Witness ==
    /\ Operated
    /\ ~existsSync(fs, ProfileBackup \o <<"local">>)
    /\ FilesUnder(fs, RoamingPath) # {}
    /\ LeavesOnlyDest(backupPath(fs, ProfileBackup \o <<"local">>, RoamingPath, <<>>,
                                 FALSE, TRUE, None, 0),
                      fs, RoamingPath, FALSE)
    /\ FilesUnder(backupPath(fs, ProfileBackup \o <<"local">>, RoamingPath, <<>>,
                             FALSE, TRUE, None, 0).fs, RoamingPath)
          = FilesUnder(fs, RoamingPath)


(***************************************************************************)
(* Properties of an upload that copies no file.                            *)
(***************************************************************************)
\* the last operation was an upload that raised no error and whose manifests
\* were all empty: nothing matched, nothing was selected or the root is missing
EmptyUpload ==
    /\ last.op = "upload" /\ last.outcome = "ok"
    /\ \A root \in LocalRoots : RootManifest(last.preFs, root) = <<>>

\* the newest record is an upload record of no file whose backup holds the
\* sub-folder of the roaming root
RecordedEmptyBackup ==
    /\ last.appends = 1
    /\ meta.state = "ok"
    /\ Newest.syncType = "upload"
    /\ Newest.fileCount = 0
    /\ (Base \o <<Newest.backupPath, BackupSub(RoamingPath)>>) \in fs.dirs
    /\ FilesUnder(fs, Base \o <<Newest.backupPath, BackupSub(RoamingPath)>>) = {}
        \/ existsSync(last.preFs, Base \o <<Newest.backupPath>>)

\* the newest record is what getLatestBackupPath returns and the newest
\* choice of the download prompt
LatestAndSelectable ==
    /\ getLatestBackupPath(meta) = Some(Base \o <<Newest.backupPath>>)
    /\ Choices(meta) # <<>>
    /\ Choices(meta)[Len(Choices(meta))] = Newest
    /\ selectBackupForDownload(meta, Len(Choices(meta))) = Some(Newest.backupId)

\* C35: an upload whose manifests are all empty (no file matches, the
\* category selection is empty, or the source root is missing) still creates
\* the sub-folder of the backup and appends an upload record with fileCount
\* 0; that backup is the ledger's latest upload and a choice of the download
\* prompt.
C35_EmptyUploadIsRecorded == EmptyUpload => RecordedEmptyBackup /\ LatestAndSelectable

\* an upload with an empty category selection from a root that holds a file
\* of a category made an empty backup and recorded it
C35_Witness ==
    /\ EmptyUpload
    /\ categories = Some(<<>>)
    /\ <<"prefs.js">> \in FilesUnder(last.preFs, RoamingPath)
    /\ RecordedEmptyBackup
    /\ LatestAndSelectable
    /\ ~existsSync(last.preFs, Base \o <<Newest.backupPath>>)


(***************************************************************************)
(* Properties of what an operation changes under the destination.          *)
(***************************************************************************)
\* every file under the destination and outside dir is as before the last
\* operation: none added, none removed, none with other content
UnchangedOutside(dir) ==
    \A p \in DOMAIN last.preFs.files \cup DOMAIN fs.files :
        (IsPrefix(Base, p) /\ ~IsPrefix(dir, p)) =>
            /\ p \in DOMAIN last.preFs.files /\ p \in DOMAIN fs.files
            /\ fs.files[p] = last.preFs.files[p]

\* the directory of the last upload record of the ledger before the operation
LatestUploadDirBefore ==
    LET i == CHOOSE k \in UploadPositions(last.preMeta) :
                 \A j \in UploadPositions(last.preMeta) : j <= k
    IN Base \o <<last.preMeta.records[i].backupPath>>

\* the directories an upload at a second up to now creates
UploadDirs == {Base \o <<generateBackupId(t)>> : t \in 0..clock}

\* C36: smart sync in unified topology changes no file under the destination
\* outside the directory of the latest upload (the directory it creates when
\* it degrades to an upload), an upload changes no file of a backup directory
\* other than its own, and a download changes no file under the destination;
\* this holds also for an operation that a failing copy interrupts.
C36_OtherBackupsUntouched ==
    Operated =>
        IF last.op = "download" THEN UnchangedOutside(RoamingPath)
        ELSE IF last.route = "merge"
        THEN samePaths =>
                /\ UploadPositions(last.preMeta) # {}
                /\ UnchangedOutside(LatestUploadDirBefore)
        ELSE \E dir \in UploadDirs : UnchangedOutside(dir)

\* a merge in unified topology changed a file of the latest upload's
\* directory while an older backup directory with files stayed as it was
C36_Witness ==
    /\ Operated /\ last.route = "merge" /\ samePaths
    /\ UnchangedOutside(LatestUploadDirBefore)
    /\ \E p \in DOMAIN fs.files :
          /\ IsPrefix(LatestUploadDirBefore, p)
          /\ p \notin DOMAIN last.preFs.files \/ fs.files[p] # last.preFs.files[p]
    /\ \E p \in DOMAIN fs.files : IsPrefix(Base, p) /\ ~IsPrefix(LatestUploadDirBefore, p)


(***************************************************************************)
(* Properties of a smart sync repeated at once.                            *)
(***************************************************************************)
\* r is the result of a smart sync over f and m that merged again, changed
\* no file and appended one sync record to the ledger
RepeatedWithoutChange(r, f, m) ==
    /\ r.route = "merge"
    /\ r.outcome = "ok"
    /\ r.fs.files = f.files
    /\ r.appends = 1
    /\ Len(r.meta.records) = Len(m.records) + 1
    /\ SubSeq(r.meta.records, 1, Len(m.records)) = m.records
    /\ r.meta.records[Len(r.meta.records)].syncType = "sync"

\* C37: smart sync on the merge path is idempotent on the file trees: a
\* second run right after a completed merge, in the same second or the next
\* and with no change in between, leaves every file of the local roots and of
\* the backup side with the same content and only appends one more sync
\* record.
C37_MergeIsIdempotent ==
    Merged =>
        \A dt \in 0..1 : RepeatedWithoutChange(smartSync(fs, meta, clock, dt, NoFault), fs, meta)

\* the first merge replaced a file of the backup side and brought a file to
\* the local root, and the second changes none
C37_Witness ==
    /\ Merged
    /\ \E pair \in MergePairs :
          /\ \E rel \in Range(RelPaths) :
                /\ (pair[2] \o rel) \in DOMAIN last.preFs.files
                /\ fs.files[pair[2] \o rel] # last.preFs.files[pair[2] \o rel]
          /\ \E rel \in Range(RelPaths) :
                /\ (pair[1] \o rel) \in DOMAIN fs.files
                /\ (pair[1] \o rel) \notin DOMAIN last.preFs.files
    /\ RepeatedWithoutChange(smartSync(fs, meta, clock, 0, NoFault), fs, meta)


(***************************************************************************)
(* Properties of a download from a ledger without upload records.          *)
(***************************************************************************)
\* the ledger before the last operation was absent, unparsable or without an
\* upload record
NoUploadRecorded == UploadPositions(last.preMeta) = {}

\* the ids of the last 10 upload records before the last operation
LastTenUploadIds ==
    {last.preMeta.records[i].backupId :
        i \in {k \in UploadPositions(last.preMeta) :
                 Cardinality({j \in UploadPositions(last.preMeta) : j > k}) < 10}}

\* the last operation left every file, every directory and the ledger alone
NothingDone == fs = last.preFs /\ meta = last.preMeta /\ last.appends = 0

\* C38: download restores only a backup chosen among the last 10 upload
\* records of the ledger: a download that changed a file or appended a record
\* was given the id of one of them, and when the ledger file is absent,
\* unparsable or holds no upload record the download changes no file of a
\* local root and appends no record, whatever directories the destination
\* holds.
C38_DownloadNeedsUploadRecord ==
    last.op = "download" =>
        /\ NoUploadRecorded => NothingDone
        /\ ~NothingDone => /\ last.appends = 1 => Newest.backupPath \in LastTenUploadIds
                           /\ LastTenUploadIds # {}

\* a download found a ledger without upload record next to a backup
\* directory with files, and did nothing
C38_Witness ==
    /\ last.op = "download"
    /\ NoUploadRecorded
    /\ NothingDone
    /\ \E p \in DOMAIN fs.files : IsPrefix(OtherBackup, p)
    /\ last.outcome = "no-backup-selected"

====
